---- MODULE Spec2Model ----
(***************************************************************************)
(* A model of the El Pais opinion scraper: the word-frequency analyzer     *)
(* (src/src/analyzer.py), the article translator (src/src/translator.py)   *)
(* the scraper (src/src/scraper.py) with its helpers (src/src/utils.py)    *)
(* and the pipeline that runs them one after the other (src/main.py).      *)
(*                                                                         *)
(* Text is a sequence of characters.  A character is a one-letter string,  *)
(* except the accented letters, which are written by name ("eacute").      *)
(***************************************************************************)
EXTENDS Integers, Sequences, FiniteSets, TLC

VARIABLES
    min_occurrences,  \* WordAnalyzer.min_occurrences
    a_last,           \* the analyzer method called last ("none" after construction)
    a_raised,         \* the exception that call raised ("none": it returned)
    headers,          \* the header list the caller holds
    filter_in,        \* the table the last filter_repeated_words call was given
    word_counts,      \* the Counter count_words returned
    repeated_words,   \* the dict filter_repeated_words returned
    sorted_words,     \* the dict analyze_headers returned
    print_in,         \* the results print_analysis was given
    printed,          \* the lines the last call wrote to stdout
    c_pc,             \* per caller: "idle", "loop" (in count_words), "returned"
    c_headers,        \* per caller: the header list it passed to analyze_headers
    c_i,              \* per caller: count_words' position in the list, from 1
    c_all_words,      \* per caller: count_words' local all_words
    c_result,         \* per caller: what analyze_headers returned
    t_pc,             \* ArticleTranslator: "idle", "item" (in the loop), "done"
    t_op,             \* the translator method running or run last
    t_input,          \* the list it was given: titles, or article dicts
    t_i,              \* the loop's position in the list, from 1
    t_retry,          \* translate_text's retry_count
    t_attempt,        \* translate_text's attempt, from 0
    t_results,        \* the list built so far, returned at "done"
    t_raised,         \* the exception the method raised ("none": none)
    t_log,            \* service calls and sleeps so far: <<event, item>>
    s_pc,             \* ElPaisScraper: where its user stands
    s_args,           \* the keyword arguments ElPaisScraper(...) was called with
    s_browser,        \* ElPaisScraper.browser_name
    s_driver,         \* ElPaisScraper.driver: "None" or "driver"
    s_session,        \* the browser session: "none", "open" or "quit"
    s_quit_calls,     \* the calls of driver.quit() so far
    s_raised,         \* the exception propagating to the user ("none": none)
    s_count,          \* the count get_article_links was last called with
    s_elements,       \* the number of elements the selectors gave that call
    s_links,          \* the list get_article_links returned
    s_li,             \* scrape_all's position in article_links, from 1
    s_articles,       \* ElPaisScraper.articles_data
    s_returned,       \* what scrape_all returned ("nothing": not yet)
    s_download,       \* the call of download_image in the loop's last step
    s_page,           \* what the title selectors find on the page just loaded
    f_pc,             \* sanitize_filename's caller: "start", "called", "again"
    f_text,           \* the text sanitize_filename was called with
    f_max_length,     \* the max_length it was called with
    f_filename,       \* what it returned
    m_pc,             \* main(): the stage it is in
    m_exit            \* main()'s return value (-1: it has not returned)

analyzerVars ==
    <<min_occurrences, a_last, a_raised, headers, filter_in, word_counts,
      repeated_words, sorted_words, print_in, printed>>

callVars == <<c_pc, c_headers, c_i, c_all_words, c_result>>

translatorVars ==
    <<t_pc, t_op, t_input, t_i, t_retry, t_attempt, t_results, t_raised,
      t_log>>

scraperVars ==
    <<s_pc, s_args, s_browser, s_driver, s_session, s_quit_calls, s_raised,
      s_count, s_elements, s_links, s_li, s_articles, s_returned, s_download,
      s_page>>

utilVars == <<f_pc, f_text, f_max_length, f_filename>>

mainVars == <<m_pc, m_exit>>

vars ==
    <<analyzerVars, callVars, translatorVars, scraperVars, utilVars, mainVars>>

----------------------------------------------------------------------------
(* Characters *)

LowerSeq ==
    <<"a", "b", "c", "d", "e", "f", "g", "h", "i", "j", "k", "l", "m",
      "n", "o", "p", "q", "r", "s", "t", "u", "v", "w", "x", "y", "z">>

UpperSeq ==
    <<"A", "B", "C", "D", "E", "F", "G", "H", "I", "J", "K", "L", "M",
      "N", "O", "P", "Q", "R", "S", "T", "U", "V", "W", "X", "Y", "Z">>

Range(s) == {s[i] : i \in DOMAIN s}

LowerAscii == Range(LowerSeq)

UpperAscii == Range(UpperSeq)

Digits == {"0", "1", "2", "3", "4", "5", "6", "7", "8", "9"}

\* Letters outside ASCII: word characters for \b, never matched by [a-z].
AccentedLower == {"eacute", "ntilde"}

AccentedUpper == {"Eacute", "Ntilde"}

IndexOf(c, s) == CHOOSE i \in DOMAIN s : s[i] = c

\* str.lower() on one character.
LowerCharIdentity(c) == c

LowerChar(c) ==
    IF c \in UpperAscii THEN LowerSeq[IndexOf(c, UpperSeq)]
    ELSE IF c = "Eacute" THEN "eacute"
    ELSE IF c = "Ntilde" THEN "ntilde"
    ELSE c

\* str.upper() on one character (used to build case variants of an input).
UpperChar(c) ==
    IF c \in LowerAscii THEN UpperSeq[IndexOf(c, LowerSeq)]
    ELSE IF c = "eacute" THEN "Eacute"
    ELSE IF c = "ntilde" THEN "Ntilde"
    ELSE c

\* header.lower()
Lower(s) == [i \in DOMAIN s |-> LowerChar(s[i])]

\* The regular expression's \w: letters of any script, digits, underscore.
WordChars ==
    LowerAscii \cup UpperAscii \cup Digits \cup {"_"}
        \cup AccentedLower \cup AccentedUpper

IsWordChar(c) == c \in WordChars

\* The regular expression's class [a-z].
IsAZ(c) == c \in LowerAscii

----------------------------------------------------------------------------
(* re.findall(r'\b[a-z]+\b', s) *)

\* A pattern without \b: a match may start and end anywhere.
WordBoundaryAnywhere(s, i) == TRUE

\* \b at position i: between s[i-1] and s[i], i in 1..Len(s)+1.
WordBoundary(s, i) ==
    LET before == i > 1 /\ IsWordChar(s[i - 1])
        after == i <= Len(s) /\ IsWordChar(s[i])
    IN before # after

\* The last index of the longest run of [a-z] that starts at i (s[i] is in [a-z]).
RECURSIVE GreedyEnd(_, _)
GreedyEnd(s, i) ==
    IF i < Len(s) /\ IsAZ(s[i + 1]) THEN GreedyEnd(s, i + 1) ELSE i

\* The end of the match that starts at i, 0 when there is none: [a-z]+ takes
\* the longest run and gives characters back until \b holds after it.
MatchEnd(s, i) ==
    IF ~(WordBoundary(s, i) /\ IsAZ(s[i])) THEN 0
    ELSE LET ends == {j \in i..GreedyEnd(s, i) : WordBoundary(s, j + 1)}
         IN IF ends = {} THEN 0
            ELSE CHOOSE j \in ends : \A k \in ends : k <= j

\* The non-overlapping matches from position i on, left to right.
RECURSIVE FindAllFrom(_, _)
FindAllFrom(s, i) ==
    IF i > Len(s) THEN <<>>
    ELSE LET e == MatchEnd(s, i)
         IN IF e = 0 THEN FindAllFrom(s, i + 1)
            ELSE <<SubSeq(s, i, e)>> \o FindAllFrom(s, e + 1)

FindAll(s) == FindAllFrom(s, 1)

----------------------------------------------------------------------------
(* WordAnalyzer *)

\* The shortest word that is not kept: words = [w for w in words if len(w) > 2].
ShortWordLen == 2

KeepWordShorter(word) == Len(word) > ShortWordLen - 1

KeepWord(word) == Len(word) > ShortWordLen

\* One header's contribution to all_words.
HeaderWords(header) == SelectSeq(FindAll(Lower(header)), KeepWord)

\* all_words after the loop over the headers.
RECURSIVE AllWords(_)
AllWords(hs) ==
    IF hs = <<>> THEN <<>>
    ELSE HeaderWords(Head(hs)) \o AllWords(Tail(hs))

\* A Counter (a dict) is a sequence of <<key, count>> in insertion order.
Keys(table) == {table[i][1] : i \in DOMAIN table}

Get(table, key) ==
    IF key \in Keys(table)
    THEN table[CHOOSE i \in DOMAIN table : table[i][1] = key][2]
    ELSE 0

\* Counter's update with one more element.
CounterAdd(table, word) ==
    IF word \in Keys(table)
    THEN [i \in DOMAIN table |->
            IF table[i][1] = word THEN <<word, table[i][2] + 1>> ELSE table[i]]
    ELSE Append(table, <<word, 1>>)

\* Counter(words), folded left to right.
RECURSIVE CounterFrom(_, _)
CounterFrom(table, words) ==
    IF words = <<>> THEN table
    ELSE CounterFrom(CounterAdd(table, Head(words)), Tail(words))

Counter(words) == CounterFrom(<<>>, words)

\* The distinct elements of a sequence, in first-seen order.
RECURSIVE Dedup(_)
Dedup(words) ==
    IF words = <<>> THEN <<>>
    ELSE LET rest == Dedup(SubSeq(words, 1, Len(words) - 1))
             last == words[Len(words)]
         IN IF last \in Range(rest) THEN rest ELSE Append(rest, last)

RECURSIVE AllWordsOncePerHeader(_)
AllWordsOncePerHeader(hs) ==
    IF hs = <<>> THEN <<>>
    ELSE Dedup(HeaderWords(Head(hs))) \o AllWordsOncePerHeader(Tail(hs))

count_words_presence(hs) == Counter(AllWordsOncePerHeader(hs))

\* A count that stops after the first header.
count_words_first(hs) ==
    Counter(IF hs = <<>> THEN <<>> ELSE HeaderWords(Head(hs)))

count_words(hs) == Counter(AllWords(hs))

filter_strict(table, t) == SelectSeq(table, LAMBDA e : e[2] > t)

filter_rejecting(table, t) ==
    IF t <= 0 THEN <<>> ELSE SelectSeq(table, LAMBDA e : e[2] >= t)

\* A filter that keeps the same entries and takes one off each count.
filter_decrementing(table, t) ==
    LET kept == SelectSeq(table, LAMBDA e : e[2] >= t)
    IN [i \in DOMAIN kept |-> <<kept[i][1], kept[i][2] - 1>>]

\* {word: count for word, count in word_counts.items() if count >= min_occurrences}
filter_repeated_words(table, t) == SelectSeq(table, LAMBDA e : e[2] >= t)

\* A sort that puts an item before the items already placed of its count.
InsertBeforeTies(sorted, e) ==
    LET n == Cardinality({i \in DOMAIN sorted : sorted[i][2] > e[2]})
    IN SubSeq(sorted, 1, n) \o <<e>> \o SubSeq(sorted, n + 1, Len(sorted))

\* sorted(items, key=count, reverse=True): stable, so an item goes after the
\* items already placed whose count is not smaller.
InsertByCount(sorted, e) ==
    LET n == Cardinality({i \in DOMAIN sorted : sorted[i][2] >= e[2]})
    IN SubSeq(sorted, 1, n) \o <<e>> \o SubSeq(sorted, n + 1, Len(sorted))

RECURSIVE SortFrom(_, _)
SortFrom(sorted, items) ==
    IF items = <<>> THEN sorted
    ELSE SortFrom(InsertByCount(sorted, Head(items)), Tail(items))

sort_unsorted(items) == items

sort_by_count_desc(items) == SortFrom(<<>>, items)

analyze_headers(hs, t) ==
    sort_by_count_desc(filter_repeated_words(count_words(hs), t))

----------------------------------------------------------------------------
(* Inputs of the analyzer *)

W_the == <<"t", "h", "e">>

W_cat == <<"c", "a", "t">>

W_big == <<"b", "i", "g">>

W_bar == <<"b", "a", "r">>

W_and == <<"a", "n", "d">>

W_fox == <<"f", "o", "x">>

W_quick == <<"q", "u", "i", "c", "k">>

W_brown == <<"b", "r", "o", "w", "n">>

W_crisis == <<"c", "r", "i", "s", "i", "s">>

W_european == <<"e", "u", "r", "o", "p", "e", "a", "n">>

W_europe == <<"e", "u", "r", "o", "p", "e">>

W_union == <<"u", "n", "i", "o", "n">>

W_political == <<"p", "o", "l", "i", "t", "i", "c", "a", "l">>

W_leaders == <<"l", "e", "a", "d", "e", "r", "s">>

W_discuss == <<"d", "i", "s", "c", "u", "s", "s">>

W_situation == <<"s", "i", "t", "u", "a", "t", "i", "o", "n">>

SP == <<" ">>

\* word.capitalize()
Cap(w) == <<UpperChar(w[1])>> \o Tail(w)

\* The headers of tests/test_analyzer.py test_analyze_headers.
TestHeader1 ==
    Cap(W_the) \o SP \o Cap(W_european) \o SP \o Cap(W_union) \o SP
        \o W_and \o SP \o W_the \o SP \o W_crisis

TestHeader2 ==
    Cap(W_the) \o SP \o W_political \o SP \o W_crisis \o SP
        \o <<"i", "n">> \o SP \o Cap(W_europe)

TestHeader3 ==
    Cap(W_european) \o SP \o W_leaders \o SP \o W_discuss \o SP
        \o W_the \o SP \o W_situation

TestHeaders == <<TestHeader1, TestHeader2, TestHeader3>>

\* Short headers: each one a case of the tokenizer.
HeaderPool ==
    { <<>>,                                             \* ""
      Cap(W_the) \o SP \o Cap(W_cat),                   \* "The Cat"
      W_the \o SP \o W_cat,                             \* "the cat"
      <<"A">> \o SP \o W_big \o SP \o <<"o", "x">>,     \* "A big ox"
      W_the \o SP \o W_the,                             \* "the the"
      W_cat \o <<"1", "2">> \o SP \o W_big \o <<"_">> \o W_bar \o SP
          \o <<"t", "h", "eacute">>,                    \* "cat12 big_bar th(e')"
      <<"1", "2", " ", "-", " ", "7">>,                 \* "12 - 7"
      W_cat \o <<"-">> \o W_the }                       \* "cat-the"

\* The longest header list drawn from the pool.
MaxHeaders == 2

RECURSIVE SeqsUpTo(_, _)
SeqsUpTo(S, n) ==
    IF n = 0 THEN {<<>>}
    ELSE LET shorter == SeqsUpTo(S, n - 1)
         IN shorter \cup {Append(q, x) : q \in shorter, x \in S}

\* Header lists without a word to count: headers that are empty, hold only
\* short words, or hold no letter.
DegenerateHeaderLists ==
    { << <<"A", "n">> \o SP \o <<"o", "x">> >>,             \* ["An ox"]
      << <<"A", "n">> \o SP \o <<"o", "x">>, <<>>,
         <<"1", "2", " ", "-", " ", "7">> >>,                \* ["An ox", "", "12 - 7"]
      << <<>>, <<>>, <<>> >> }                               \* ["", "", ""]

HeaderLists ==
    SeqsUpTo(HeaderPool, MaxHeaders) \cup {TestHeaders}
        \cup DegenerateHeaderLists

\* The largest threshold an analyzer is constructed with.
MaxThreshold == 4

Thresholds == (0 - 1)..MaxThreshold

\* The Counter of tests/test_analyzer.py test_filter_repeated_words.
TestCounter ==
    << <<W_the, 5>>, <<W_quick, 2>>, <<W_brown, 1>>, <<W_fox, 3>> >>

\* Frequency tables given to filter_repeated_words directly.
TablePool ==
    { <<>>, TestCounter,
      << <<W_big, 1>>, <<W_the, 3>>, <<W_cat, 1>>, <<W_bar, 3>> >>,
      << <<W_cat, 2>>, <<W_the, 4>> >> }

----------------------------------------------------------------------------
(* WordAnalyzer: construction and calls *)

\* WordAnalyzer(min_occurrences=t): the constructor stores t as it is given.
\* headers is the header list the caller holds.
InitAnalyzer ==
    /\ min_occurrences \in Thresholds
    /\ headers \in HeaderLists
    /\ a_last = "none"
    /\ a_raised = "none"
    /\ filter_in = <<>>
    /\ word_counts = <<>>
    /\ repeated_words = <<>>
    /\ sorted_words = <<>>
    /\ print_in = <<>>
    /\ printed = <<>>

\* analyzer.count_words(headers)
CountWords ==
    /\ word_counts' = count_words(headers)
    /\ a_last' = "count_words"
    /\ a_raised' = "none"
    /\ filter_in' = <<>>
    /\ repeated_words' = <<>>
    /\ sorted_words' = <<>>
    /\ print_in' = <<>>
    /\ printed' = <<>>
    /\ UNCHANGED <<min_occurrences, headers>>
    /\ UNCHANGED <<callVars, translatorVars, scraperVars, utilVars, mainVars>>

\* analyzer.filter_repeated_words(table)
FilterRepeatedWords ==
    /\ \E table \in TablePool : filter_in' = table
    /\ repeated_words' = filter_repeated_words(filter_in', min_occurrences)
    /\ a_last' = "filter_repeated_words"
    /\ a_raised' = "none"
    /\ word_counts' = <<>>
    /\ sorted_words' = <<>>
    /\ print_in' = <<>>
    /\ printed' = <<>>
    /\ UNCHANGED <<min_occurrences, headers>>
    /\ UNCHANGED <<callVars, translatorVars, scraperVars, utilVars, mainVars>>

\* analyzer.filter_repeated_words(repeated), where repeated is the mapping the
\* last filter returned.
FilterFilteredWords ==
    /\ a_last \in {"filter_repeated_words", "analyze_headers"}
    /\ filter_in' = repeated_words
    /\ repeated_words' = filter_repeated_words(filter_in', min_occurrences)
    /\ a_last' = "filter_repeated_words"
    /\ a_raised' = "none"
    /\ word_counts' = <<>>
    /\ sorted_words' = <<>>
    /\ print_in' = <<>>
    /\ printed' = <<>>
    /\ UNCHANGED <<min_occurrences, headers>>
    /\ UNCHANGED <<callVars, translatorVars, scraperVars, utilVars, mainVars>>

\* analyzer.analyze_headers(headers)
AnalyzeHeaders ==
    /\ word_counts' = count_words(headers)
    /\ filter_in' = word_counts'
    /\ repeated_words' = filter_repeated_words(word_counts', min_occurrences)
    /\ sorted_words' = sort_by_count_desc(repeated_words')
    /\ a_last' = "analyze_headers"
    /\ a_raised' = "none"
    /\ print_in' = <<>>
    /\ printed' = <<>>
    /\ UNCHANGED <<min_occurrences, headers>>
    /\ UNCHANGED <<callVars, translatorVars, scraperVars, utilVars, mainVars>>

\* The lines of print_analysis: a line is its kind and, for the caption and
\* the rows, the values formatted into it.
Line(kind) == [kind |-> kind, word |-> <<>>, count |-> 0]

\* "Words appearing more than twice (>= {self.min_occurrences} times):"
CaptionLine(t) == [kind |-> "caption", word |-> <<>>, count |-> t]

\* f"{word:<20} {count:>10}"
RowLine(e) == [kind |-> "row", word |-> e[1], count |-> e[2]]

\* A table printed whether or not there are results.
TableLinesAlways(results) ==
    <<Line("header"), Line("dashes")>>
        \o [i \in DOMAIN results |-> RowLine(results[i])]

\* if not results: the message; else: the header, the dashes, a row per item.
TableLines(results) ==
    IF results = <<>> THEN <<Line("no words found")>>
    ELSE <<Line("header"), Line("dashes")>>
             \o [i \in DOMAIN results |-> RowLine(results[i])]

\* analyzer.print_analysis(results): main passes what analyze_headers
\* returned; any mapping can be passed.
PrintAnalysis ==
    /\ \E results \in {sorted_words} \cup TablePool : print_in' = results
    /\ printed' =
           <<Line("rule"), Line("title"), Line("rule"),
             CaptionLine(min_occurrences)>>
               \o TableLines(print_in') \o <<Line("rule")>>
    /\ a_last' = "print_analysis"
    /\ a_raised' = "none"
    /\ filter_in' = <<>>
    /\ word_counts' = <<>>
    /\ repeated_words' = <<>>
    /\ sorted_words' = <<>>
    /\ UNCHANGED <<min_occurrences, headers>>
    /\ UNCHANGED <<callVars, translatorVars, scraperVars, utilVars, mainVars>>

----------------------------------------------------------------------------
(* Concurrent calls of analyze_headers on one WordAnalyzer *)

\* The callers that share the analyzer.
Callers == {"a", "b"}

\* The header lists they pass.
CallHeaderLists ==
    SeqsUpTo({W_the \o SP \o W_cat, W_cat \o SP \o W_cat}, MaxHeaders)

InitCalls ==
    /\ c_pc = [c \in Callers |-> "idle"]
    /\ c_headers = [c \in Callers |-> <<>>]
    /\ c_i = [c \in Callers |-> 1]
    /\ c_all_words = [c \in Callers |-> <<>>]
    /\ c_result = [c \in Callers |-> <<>>]

\* An accumulator that is one list for all the calls.
ExtendShared(all, c, words) == [k \in DOMAIN all |-> all[k] \o words]

\* all_words.extend(words): all_words is a local of the call.
Extend(all, c, words) == [all EXCEPT ![c] = @ \o words]

\* A caller enters analyze_headers(headers) and count_words: all_words = [].
CallAnalyzeHeaders(c) ==
    /\ c_pc[c] \in {"idle", "returned"}
    /\ \E hs \in CallHeaderLists : c_headers' = [c_headers EXCEPT ![c] = hs]
    /\ c_all_words' = [c_all_words EXCEPT ![c] = <<>>]
    /\ c_i' = [c_i EXCEPT ![c] = 1]
    /\ c_result' = [c_result EXCEPT ![c] = <<>>]
    /\ c_pc' = [c_pc EXCEPT ![c] = "loop"]
    /\ UNCHANGED <<analyzerVars, translatorVars, scraperVars, utilVars,
                   mainVars>>

\* One round of count_words' loop: the header's words join all_words.
CountHeader(c) ==
    /\ c_pc[c] = "loop"
    /\ c_i[c] <= Len(c_headers[c])
    /\ c_all_words' = Extend(c_all_words, c, HeaderWords(c_headers[c][c_i[c]]))
    /\ c_i' = [c_i EXCEPT ![c] = @ + 1]
    /\ UNCHANGED <<c_pc, c_headers, c_result>>
    /\ UNCHANGED <<analyzerVars, translatorVars, scraperVars, utilVars,
                   mainVars>>

\* The loop is over: Counter(all_words), the filter with self.min_occurrences,
\* the sort, and analyze_headers returns.
ReturnAnalysis(c) ==
    /\ c_pc[c] = "loop"
    /\ c_i[c] > Len(c_headers[c])
    /\ c_result' =
           [c_result EXCEPT ![c] =
               sort_by_count_desc(
                   filter_repeated_words(Counter(c_all_words[c]),
                                         min_occurrences))]
    /\ c_pc' = [c_pc EXCEPT ![c] = "returned"]
    /\ UNCHANGED <<c_headers, c_i, c_all_words>>
    /\ UNCHANGED <<analyzerVars, translatorVars, scraperVars, utilVars,
                   mainVars>>

CallerEnters == \E c \in Callers : CallAnalyzeHeaders(c)

CallerCounts == \E c \in Callers : CountHeader(c)

CallerReturns == \E c \in Callers : ReturnAnalysis(c)

----------------------------------------------------------------------------
(* ArticleTranslator *)

\* translate_text(self, text, retry_count=3)
DefaultRetryCount == 3

Titles == {"", "Hola mundo", "Primera noticia"}

\* result.text of the translation service for a text, when it answers.
Translation(text) ==
    CASE text = "Hola mundo" -> "Hello world"
      [] text = "Primera noticia" -> "First news"
      [] OTHER -> text

\* An article is a dict; the scraper's articles have a "title", a dict
\* without one is the empty function.
NoTitleArticle == [k \in {} |-> ""]

Articles == {[title |-> t] : t \in Titles} \cup {NoTitleArticle}

\* A lookup that gives the word "None" for a missing title.
ArticleTitleOrNone(article) ==
    IF "title" \in DOMAIN article THEN article["title"] ELSE "None"

\* article.get("title", "")
ArticleTitle(article) ==
    IF "title" \in DOMAIN article THEN article["title"] ELSE ""

\* The longest list given to the translator.
MaxArticles == 2

TitleLists == SeqsUpTo(Titles, MaxArticles)

ArticleLists == SeqsUpTo(Articles, MaxArticles)

InitTranslator ==
    /\ t_pc = "idle"
    /\ t_op = "none"
    /\ t_input = <<>>
    /\ t_i = 1
    /\ t_retry = DefaultRetryCount
    /\ t_attempt = 0
    /\ t_results = <<>>
    /\ t_raised = "none"
    /\ t_log = <<>>

\* The text the loop hands to translate_text.
CurrentText ==
    IF t_op = "get_translated_headers" THEN ArticleTitle(t_input[t_i])
    ELSE t_input[t_i]

\* What the loop appends for the current item, given translate_text's value.
ResultFor(value) ==
    IF t_op = "get_translated_headers"
    THEN [original |-> CurrentText, translated |-> value]
    ELSE value

\* The sleep after an item: translate_titles sleeps between items only,
\* get_translated_headers after every item; translate_text called by itself
\* is followed by none.
SleepAfterItem ==
    IF t_op = "translate_text" THEN <<>>
    ELSE IF t_op = "translate_titles" /\ t_i >= Len(t_input) THEN <<>>
    ELSE << <<"sleep 0.5", t_i>> >>

AppendResultFirst(results, r) == <<r>> \o results

\* translated_titles.append(translated) / results.append({...})
AppendResult(results, r) == Append(results, r)

FailureValueEmpty(text) == ""

\* translate_text's value when the last attempt failed: return text
FailureValue(text) == text

\* A failed attempt that is followed by a sleep even when it is the last.
MoreAttemptsAlways(attempt, retry_count) == attempt < retry_count

\* if attempt < retry_count - 1
MoreAttempts(attempt, retry_count) == attempt < retry_count - 1

\* The largest retry_count translate_text is called with.
MaxRetryCount == 4

RetryCounts == (0 - 1)..MaxRetryCount

\* translator.translate_text(text, retry_count), called by itself: the value
\* it returns is the one element of t_results.
StartTranslateText ==
    /\ t_pc \in {"idle", "done"}
    /\ \E text \in Titles : t_input' = <<text>>
    /\ \E n \in RetryCounts : t_retry' = n
    /\ t_op' = "translate_text"
    /\ t_pc' = "item"
    /\ t_i' = 1
    /\ t_attempt' = 0
    /\ t_results' = <<>>
    /\ t_raised' = "none"
    /\ t_log' = <<>>
    /\ UNCHANGED <<analyzerVars, callVars, scraperVars, utilVars, mainVars>>

\* translator.translate_titles(titles): up to the loop.
StartTranslateTitles ==
    /\ t_pc \in {"idle", "done"}
    /\ \E titles \in TitleLists : t_input' = titles
    /\ t_op' = "translate_titles"
    /\ t_pc' = "item"
    /\ t_i' = 1
    /\ t_retry' = DefaultRetryCount
    /\ t_attempt' = 0
    /\ t_results' = <<>>
    /\ t_raised' = "none"
    /\ t_log' = <<>>
    /\ UNCHANGED <<analyzerVars, callVars, scraperVars, utilVars, mainVars>>

\* translator.get_translated_headers(articles): up to the loop.
StartGetTranslatedHeaders ==
    /\ t_pc \in {"idle", "done"}
    /\ \E articles \in ArticleLists : t_input' = articles
    /\ t_op' = "get_translated_headers"
    /\ t_pc' = "item"
    /\ t_i' = 1
    /\ t_retry' = DefaultRetryCount
    /\ t_attempt' = 0
    /\ t_results' = <<>>
    /\ t_raised' = "none"
    /\ t_log' = <<>>
    /\ UNCHANGED <<analyzerVars, callVars, scraperVars, utilVars, mainVars>>

\* The loop's body after translate_text returned value: append, sleep, next.
FinishItem(value, events) ==
    /\ t_results' = AppendResult(t_results, ResultFor(value))
    /\ t_log' = t_log \o events \o SleepAfterItem
    /\ t_i' = t_i + 1
    /\ t_attempt' = 0
    /\ UNCHANGED <<t_pc, t_op, t_input, t_retry, t_raised>>

InLoop == t_pc = "item" /\ t_i <= Len(t_input)

\* translate_text on an empty text: returns "" and calls nothing.
TranslateEmptyText ==
    /\ InLoop
    /\ CurrentText = ""
    /\ FinishItem("", <<>>)
    /\ UNCHANGED <<analyzerVars, callVars, scraperVars, utilVars, mainVars>>

\* An attempt in which the service answers: translate_text returns result.text.
AttemptSucceeds ==
    /\ InLoop
    /\ CurrentText # ""
    /\ t_attempt < t_retry
    /\ FinishItem(Translation(CurrentText), << <<"ok", t_i>> >>)
    /\ UNCHANGED <<analyzerVars, callVars, scraperVars, utilVars, mainVars>>

\* An attempt in which the service raises, not the last: sleep(1), go on.
AttemptFailsRetry ==
    /\ InLoop
    /\ CurrentText # ""
    /\ t_attempt < t_retry
    /\ MoreAttempts(t_attempt, t_retry)
    /\ t_attempt' = t_attempt + 1
    /\ t_log' = t_log \o << <<"raise", t_i>>, <<"sleep 1", t_i>> >>
    /\ UNCHANGED <<t_pc, t_op, t_input, t_i, t_retry, t_results, t_raised>>
    /\ UNCHANGED <<analyzerVars, callVars, scraperVars, utilVars, mainVars>>

\* The last attempt, in which the service raises: translate_text returns text.
AttemptFailsLast ==
    /\ InLoop
    /\ CurrentText # ""
    /\ t_attempt < t_retry
    /\ ~MoreAttempts(t_attempt, t_retry)
    /\ FinishItem(FailureValue(CurrentText), << <<"raise", t_i>> >>)
    /\ UNCHANGED <<analyzerVars, callVars, scraperVars, utilVars, mainVars>>

\* range(retry_count) is used up without a return inside the loop (it is
\* empty when retry_count <= 0): the "return text" after the loop.
RetryLoopOver ==
    /\ InLoop
    /\ CurrentText # ""
    /\ t_attempt >= t_retry
    /\ FinishItem(CurrentText, <<>>)
    /\ UNCHANGED <<analyzerVars, callVars, scraperVars, utilVars, mainVars>>

\* The loop is over: the method returns the list.
TranslatorReturns ==
    /\ t_pc = "item"
    /\ t_i > Len(t_input)
    /\ t_pc' = "done"
    /\ UNCHANGED <<t_op, t_input, t_i, t_retry, t_attempt, t_results, t_raised,
                   t_log>>
    /\ UNCHANGED <<analyzerVars, callVars, scraperVars, utilVars, mainVars>>

----------------------------------------------------------------------------
(* utils.sanitize_filename *)

\* The characters of the class [<>:"/\\|?*]
InvalidChars == {"<", ">", ":", "\"", "/", "\\", "|", "?", "*"}

\* re.sub(r'[<>:"/\\|?*]', '', text)
RemoveInvalid(text) == SelectSeq(text, LAMBDA c : c \notin InvalidChars)

\* filename.replace(' ', '_')
ReplaceSpaces(text) ==
    [i \in DOMAIN text |-> IF text[i] = " " THEN "_" ELSE text[i]]

\* re.sub(r'_+', '_', filename)
RECURSIVE CollapseUnderscores(_)
CollapseUnderscores(text) ==
    IF Len(text) < 2 THEN text
    ELSE LET n == Len(text)
             rest == CollapseUnderscores(SubSeq(text, 1, n - 1))
         IN IF text[n] = "_" /\ text[n - 1] = "_" THEN rest
            ELSE Append(rest, text[n])

\* text[:n], as Python slices: a negative n counts from the end.
Slice(text, n) ==
    LET stop == IF n >= 0 THEN n ELSE Len(text) + n
    IN SubSeq(text, 1, IF stop < 0 THEN 0
                       ELSE IF stop > Len(text) THEN Len(text)
                       ELSE stop)

\* text.lstrip(chars)
RECURSIVE LStrip(_, _)
LStrip(text, chars) ==
    IF text # <<>> /\ text[1] \in chars THEN LStrip(Tail(text), chars)
    ELSE text

\* text.rstrip(chars)
RECURSIVE RStrip(_, _)
RStrip(text, chars) ==
    IF text # <<>> /\ text[Len(text)] \in chars
    THEN RStrip(SubSeq(text, 1, Len(text) - 1), chars)
    ELSE text

\* text.strip(chars)
Strip(text, chars) == RStrip(LStrip(text, chars), chars)

\* A sanitize_filename that strips the underscores before it truncates.
sanitize_truncating_last(text, max_length) ==
    Slice(Strip(CollapseUnderscores(ReplaceSpaces(RemoveInvalid(text))), {"_"}),
          max_length)

\* sanitize_filename(text, max_length)
sanitize_filename(text, max_length) ==
    Strip(Slice(CollapseUnderscores(ReplaceSpaces(RemoveInvalid(text))),
                max_length),
          {"_"})

\* def sanitize_filename(text, max_length=100)
DefaultMaxLength == 100

\* The characters of the texts sanitize_filename is called with.
FilenameChars == {"a", " ", "_", "/", "?"}

\* The longest text it is called with.
MaxTextLen == 4

FilenameTexts == SeqsUpTo(FilenameChars, MaxTextLen)

\* The max_length arguments: negative ones, 0, lengths below and above the
\* texts', and the default.
MaxLengths == (0 - 2)..(MaxTextLen + 1) \cup {DefaultMaxLength}

InitUtil ==
    /\ f_pc = "start"
    /\ f_text = <<>>
    /\ f_max_length = DefaultMaxLength
    /\ f_filename = <<>>

\* The caller holds a text and a max_length.
InitSanitizeInputs ==
    /\ f_pc = "start"
    /\ f_text \in FilenameTexts
    /\ f_max_length \in MaxLengths
    /\ f_filename = <<>>

\* filename = sanitize_filename(text, max_length)
CallSanitizeFilename ==
    /\ f_pc = "start"
    /\ f_filename' = sanitize_filename(f_text, f_max_length)
    /\ f_pc' = "called"
    /\ UNCHANGED <<f_text, f_max_length>>
    /\ UNCHANGED <<analyzerVars, callVars, translatorVars, scraperVars,
                   mainVars>>

----------------------------------------------------------------------------
(* ElPaisScraper: the driver's lifecycle and scrape_all *)

\* config.NUM_ARTICLES
NUM_ARTICLES == 5

B_chrome == <<"c", "h", "r", "o", "m", "e">>

B_firefox == <<"f", "i", "r", "e", "f", "o", "x">>

B_edge == <<"e", "d", "g", "e">>

B_invalid == <<"i", "n", "v", "a", "l", "i", "d">>

\* The names _initialize_driver has a branch for.
SupportedBrowsers == {B_chrome, B_firefox, B_edge}

\* The browser names a scraper is constructed with: the three names, "Chrome",
\* "FIREFOX", "invalid" and "".
BrowserArgs ==
    SupportedBrowsers
        \cup {Cap(B_chrome), <<"F", "I", "R", "E", "F", "O", "X">>, B_invalid, <<>>}

\* config.BASE_URL
Host ==
    <<"h", "t", "t", "p", "s", ":", "/", "/", "e", "l", "p", "a", "i", "s", ".",
      "c", "o", "m">>

\* '/opinion/2026', the text an href must contain.
Opinion2026 ==
    <<"/", "o", "p", "i", "n", "i", "o", "n", "/", "2", "0", "2", "6">>

\* '/opinion/', the text the selectors ask for.
OpinionAny == <<"/", "o", "p", "i", "n", "i", "o", "n", "/">>

\* An article URL of the Opinion page, of 2026: ".../opinion/2026/k".
Url(k) == Host \o Opinion2026 \o <<"/", k>>

\* An article URL of an earlier year: ".../opinion/2025/k".
OldUrl(k) == Host \o OpinionAny \o <<"2", "0", "2", "5", "/", k>>

\* sub in s
Contains(s, sub) ==
    \E i \in 1..(Len(s) - Len(sub) + 1) : SubSeq(s, i, i + Len(sub) - 1) = sub

\* An element of the page: get_attribute("href") gives a string, gives None,
\* or raises (a stale element).
Href(h) == [kind |-> "str", href |-> h]

NoHref == [kind |-> "None", href |-> <<>>]

StaleElement == [kind |-> "raise", href |-> <<>>]

\* What find_elements gives for one selector: it raises, or a list of elements.
FindRaises == [raises |-> TRUE, elements |-> <<>>]

Found(es) == [raises |-> FALSE, elements |-> es]

SelectorResults ==
    { FindRaises,
      Found(<<>>),
      Found(<<Href(Url("a")), NoHref, Href(OldUrl("a")), Href(Url("a")),
              Href(<<>>), Href(Url("b"))>>),
      Found(<<Href(Url("c")), StaleElement, Href(Url("d"))>>),
      Found(<<Href(Url("a")), Href(Url("b")), Href(Url("c")), Href(Url("d")),
              Href(Url("e")), Href(Url("f"))>>) }

\* The three selectors of get_article_links.
Selectors == 1..3

\* The pages: one result per selector.
Pages == [Selectors -> SelectorResults]

\* The number of elements a page holds, over the selectors.
ElementCount(page) ==
    Len(page[1].elements) + Len(page[2].elements) + Len(page[3].elements)

\* The largest count of a direct call of get_article_links.
MaxCount == 3

Counts == 0..MaxCount \cup {NUM_ARTICLES}

\* The test on an href with the year left out of it.
WantedAnyYear(links, e) ==
    /\ e.kind = "str" /\ e.href # <<>>
    /\ e.href \notin Range(links)
    /\ Contains(e.href, OpinionAny)

\* if href and href not in article_links and "/opinion/2026" in href
Wanted(links, e) ==
    /\ e.kind = "str" /\ e.href # <<>>
    /\ e.href \notin Range(links)
    /\ Contains(e.href, Opinion2026)

\* for element in elements: the list after the loop, and whether the loop was
\* left by an exception of get_attribute.
RECURSIVE ScanElements(_, _, _)
ScanElements(links, elements, count) ==
    IF elements = <<>> THEN [links |-> links, raised |-> FALSE]
    ELSE LET e == Head(elements)
         IN IF e.kind = "raise" THEN [links |-> links, raised |-> TRUE]
            ELSE IF Wanted(links, e)
            THEN LET more == Append(links, e.href)
                 IN IF Len(more) >= count
                    THEN [links |-> more, raised |-> FALSE]
                    ELSE ScanElements(more, Tail(elements), count)
            ELSE ScanElements(links, Tail(elements), count)

\* for selector in selectors: an exception inside the try goes to the next
\* selector; without one the loop is left once count links are there.
RECURSIVE ScanSelectors(_, _, _, _)
ScanSelectors(links, page, k, count) ==
    IF k > Len(page) THEN links
    ELSE IF page[k].raises THEN ScanSelectors(links, page, k + 1, count)
    ELSE LET r == ScanElements(links, page[k].elements, count)
         IN IF ~r.raised /\ Len(r.links) >= count THEN r.links
            ELSE ScanSelectors(r.links, page, k + 1, count)

\* seq[:n], n not negative
Take(seq, n) == SubSeq(seq, 1, IF n < Len(seq) THEN n ELSE Len(seq))

\* get_article_links(count): list(dict.fromkeys(article_links))[:count]
get_article_links(page, count) ==
    Take(Dedup(ScanSelectors(<<>>, page, 1, count)), count)

\* No call of download_image in the loop's last step.
NoDownload ==
    [filename |-> <<>>, requests |-> 0, error |-> "none", returned |-> "none"]

InitScraper ==
    /\ s_pc = "start"
    /\ s_args = [k \in {} |-> <<>>]
    /\ s_browser = <<>>
    /\ s_driver = "None"
    /\ s_session = "none"
    /\ s_quit_calls = 0
    /\ s_raised = "none"
    /\ s_count = 0
    /\ s_elements = 0
    /\ s_links = <<>>
    /\ s_li = 1
    /\ s_articles = <<>>
    /\ s_returned = "nothing"
    /\ s_download = NoDownload
    /\ s_page = <<>>

\* ElPaisScraper(browser=b): __init__ up to the call of _initialize_driver.
Construct ==
    /\ s_pc = "start"
    /\ \E b \in BrowserArgs :
           /\ s_args' = [browser |-> b]
           /\ s_browser' = Lower(b)
    /\ s_driver' = "None"
    /\ s_articles' = <<>>
    /\ s_pc' = "initialize"
    /\ UNCHANGED <<s_session, s_quit_calls, s_raised, s_count, s_elements,
                   s_links, s_li, s_returned>>
    /\ UNCHANGED <<s_download, s_page>>
    /\ UNCHANGED <<analyzerVars, callVars, translatorVars, utilVars, mainVars>>

\* ElPaisScraper(driver=driver), the call of the BrowserStack test: __init__
\* takes browser, headless and mobile, so the call raises TypeError (unexpected
\* keyword argument) before the body of __init__ runs; no scraper exists.
ConstructWithDriver ==
    /\ s_pc = "start"
    /\ s_args' = [driver |-> "remote"]
    /\ s_raised' = "TypeError"
    /\ s_pc' = "init_failed"
    /\ UNCHANGED <<s_browser, s_driver, s_session, s_quit_calls, s_count,
                   s_elements, s_links, s_li, s_articles, s_returned>>
    /\ UNCHANGED <<s_download, s_page>>
    /\ UNCHANGED <<analyzerVars, callVars, translatorVars, utilVars, mainVars>>

\* _initialize_driver: no branch for the browser; ValueError leaves __init__.
InitUnsupportedBrowser ==
    /\ s_pc = "initialize"
    /\ s_browser \notin SupportedBrowsers
    /\ s_raised' = "ValueError"
    /\ s_pc' = "init_failed"
    /\ UNCHANGED <<s_args, s_browser, s_driver, s_session, s_quit_calls,
                   s_count, s_elements, s_links, s_li, s_articles, s_returned>>
    /\ UNCHANGED <<s_download, s_page>>
    /\ UNCHANGED <<analyzerVars, callVars, translatorVars, utilVars, mainVars>>

\* _create_*_driver raises before a browser runs (driver download, launch):
\* the exception is logged and raised again, out of __init__.
CreateDriverFails ==
    /\ s_pc = "initialize"
    /\ s_browser \in SupportedBrowsers
    /\ s_raised' = "WebDriverException"
    /\ s_pc' = "init_failed"
    /\ UNCHANGED <<s_args, s_browser, s_driver, s_session, s_quit_calls,
                   s_count, s_elements, s_links, s_li, s_articles, s_returned>>
    /\ UNCHANGED <<s_download, s_page>>
    /\ UNCHANGED <<analyzerVars, callVars, translatorVars, utilVars, mainVars>>

\* _create_firefox_driver: webdriver.Firefox(...) has started the browser and
\* driver.set_window_size raises; self.driver was not assigned yet.
CreateFirefoxWindowSizeFails ==
    /\ s_pc = "initialize"
    /\ s_browser = B_firefox
    /\ s_session' = "open"
    /\ s_raised' = "WebDriverException"
    /\ s_pc' = "init_failed"
    /\ UNCHANGED <<s_args, s_browser, s_driver, s_quit_calls, s_count,
                   s_elements, s_links, s_li, s_articles, s_returned>>
    /\ UNCHANGED <<s_download, s_page>>
    /\ UNCHANGED <<analyzerVars, callVars, translatorVars, utilVars, mainVars>>

\* self.driver = self._create_*_driver()
CreateDriverOk ==
    /\ s_pc = "initialize"
    /\ s_browser \in SupportedBrowsers
    /\ s_session' = "open"
    /\ s_driver' = "driver"
    /\ s_pc' = "set_timeouts"
    /\ UNCHANGED <<s_args, s_browser, s_quit_calls, s_raised, s_count,
                   s_elements, s_links, s_li, s_articles, s_returned>>
    /\ UNCHANGED <<s_download, s_page>>
    /\ UNCHANGED <<analyzerVars, callVars, translatorVars, utilVars, mainVars>>

\* set_page_load_timeout or implicitly_wait raises: logged, raised again, out
\* of __init__; the caller gets no scraper object.
SetTimeoutsFails ==
    /\ s_pc = "set_timeouts"
    /\ s_raised' = "WebDriverException"
    /\ s_pc' = "init_failed"
    /\ UNCHANGED <<s_args, s_browser, s_driver, s_session, s_quit_calls,
                   s_count, s_elements, s_links, s_li, s_articles, s_returned>>
    /\ UNCHANGED <<s_download, s_page>>
    /\ UNCHANGED <<analyzerVars, callVars, translatorVars, utilVars, mainVars>>

\* The timeouts are set: __init__ returns.
SetTimeoutsOk ==
    /\ s_pc = "set_timeouts"
    /\ s_pc' = "constructed"
    /\ UNCHANGED <<s_args, s_browser, s_driver, s_session, s_quit_calls,
                   s_raised, s_count, s_elements, s_links, s_li, s_articles,
                   s_returned>>
    /\ UNCHANGED <<s_download, s_page>>
    /\ UNCHANGED <<analyzerVars, callVars, translatorVars, utilVars, mainVars>>

\* with ElPaisScraper(...) as scraper: __enter__ returns self.
EnterWith ==
    /\ s_pc = "constructed"
    /\ s_pc' = "in_with"
    /\ UNCHANGED <<s_args, s_browser, s_driver, s_session, s_quit_calls,
                   s_raised, s_count, s_elements, s_links, s_li, s_articles,
                   s_returned>>
    /\ UNCHANGED <<s_download, s_page>>
    /\ UNCHANGED <<analyzerVars, callVars, translatorVars, utilVars, mainVars>>

\* scrape_all: navigate_to_opinion() returned False; return [].
NavigateFails ==
    /\ s_pc = "in_with"
    /\ s_returned' = <<>>
    /\ s_pc' = "body_done"
    /\ UNCHANGED <<s_args, s_browser, s_driver, s_session, s_quit_calls,
                   s_raised, s_count, s_elements, s_links, s_li, s_articles>>
    /\ UNCHANGED <<s_download, s_page>>
    /\ UNCHANGED <<analyzerVars, callVars, translatorVars, utilVars, mainVars>>

\* scrape_all: navigate_to_opinion() returned True.
NavigateOk ==
    /\ s_pc = "in_with"
    /\ s_pc' = "get_links"
    /\ UNCHANGED <<s_args, s_browser, s_driver, s_session, s_quit_calls,
                   s_raised, s_count, s_elements, s_links, s_li, s_articles,
                   s_returned>>
    /\ UNCHANGED <<s_download, s_page>>
    /\ UNCHANGED <<analyzerVars, callVars, translatorVars, utilVars, mainVars>>

\* scraper.get_article_links(count), called by the scraper's user after
\* navigate_to_opinion, as the BrowserStack test does.
CallGetArticleLinks ==
    /\ s_pc = "in_with"
    /\ \E page \in Pages, count \in Counts :
           /\ s_elements' = ElementCount(page)
           /\ s_count' = count
           /\ s_links' = get_article_links(page, count)
    /\ s_pc' = "links_done"
    /\ UNCHANGED <<s_args, s_browser, s_driver, s_session, s_quit_calls,
                   s_raised, s_li, s_articles, s_returned>>
    /\ UNCHANGED <<s_download, s_page>>
    /\ UNCHANGED <<analyzerVars, callVars, translatorVars, utilVars, mainVars>>

\* scrape_all: article_links = get_article_links(NUM_ARTICLES); with none,
\* return []; otherwise articles_data = [] and the loop starts.
GetArticleLinks ==
    /\ s_pc = "get_links"
    /\ \E page \in Pages :
           /\ s_elements' = ElementCount(page)
           /\ s_count' = NUM_ARTICLES
           /\ s_links' = get_article_links(page, NUM_ARTICLES)
    /\ IF s_links' = <<>>
       THEN s_returned' = <<>> /\ s_pc' = "body_done"
            /\ UNCHANGED s_articles
       ELSE s_articles' = <<>> /\ s_pc' = "scrape"
            /\ UNCHANGED s_returned
    /\ s_li' = 1
    /\ UNCHANGED <<s_args, s_browser, s_driver, s_session, s_quit_calls,
                   s_raised>>
    /\ UNCHANGED <<s_download, s_page>>
    /\ UNCHANGED <<analyzerVars, callVars, translatorVars, utilVars, mainVars>>

\* The loop's body when scrape_article(link) returned None.
ScrapeArticleFails ==
    /\ s_pc = "scrape"
    /\ s_li <= Len(s_links)
    /\ s_li' = s_li + 1
    /\ UNCHANGED <<s_pc, s_args, s_browser, s_driver, s_session, s_quit_calls,
                   s_raised, s_count, s_elements, s_links, s_articles,
                   s_returned>>
    /\ s_download' = NoDownload
    /\ UNCHANGED s_page
    /\ UNCHANGED <<analyzerVars, callVars, translatorVars, utilVars, mainVars>>

\* The loop's body when scrape_article(link) returned the article's data;
\* with an image_url, download_image is called and its result dropped.
ScrapeArticleOk ==
    /\ s_pc = "scrape"
    /\ s_li <= Len(s_links)
    /\ \E image \in {"None", "http"} :
           s_articles' =
               Append(s_articles, [url |-> s_links[s_li], image_url |-> image])
    /\ s_li' = s_li + 1
    /\ UNCHANGED <<s_pc, s_args, s_browser, s_driver, s_session, s_quit_calls,
                   s_raised, s_count, s_elements, s_links, s_returned>>
    /\ UNCHANGED <<s_download, s_page>>
    /\ UNCHANGED <<analyzerVars, callVars, translatorVars, utilVars, mainVars>>

\* The loop is over: return self.articles_data.
ScrapeAllReturns ==
    /\ s_pc = "scrape"
    /\ s_li > Len(s_links)
    /\ s_returned' = s_articles
    /\ s_pc' = "body_done"
    /\ UNCHANGED <<s_args, s_browser, s_driver, s_session, s_quit_calls,
                   s_raised, s_count, s_elements, s_links, s_li, s_articles>>
    /\ s_download' = NoDownload
    /\ UNCHANGED s_page
    /\ UNCHANGED <<analyzerVars, callVars, translatorVars, utilVars, mainVars>>

\* An exception that no "except Exception" catches (KeyboardInterrupt) leaves
\* scrape_all and the with-block's body; the page and the download under way
\* are left behind.
BodyRaises ==
    /\ s_pc \in {"in_with", "get_links", "scrape", "loaded", "download"}
    /\ s_raised' = "KeyboardInterrupt"
    /\ s_pc' = "body_raised"
    /\ UNCHANGED <<s_args, s_browser, s_driver, s_session, s_quit_calls,
                   s_count, s_elements, s_links, s_li, s_articles, s_returned>>
    /\ s_download' = NoDownload
    /\ s_page' = <<>>
    /\ UNCHANGED <<analyzerVars, callVars, translatorVars, utilVars, mainVars>>

\* __exit__, which calls close(): with a driver, driver.quit(); an exception
\* of quit() is logged and dropped.  An exception of the body propagates.
ExitWith ==
    /\ s_pc \in {"body_done", "links_done", "body_raised"}
    /\ IF s_driver # "None"
       THEN /\ s_quit_calls' = s_quit_calls + 1
            /\ \E quit_ok \in BOOLEAN :
                   s_session' = IF quit_ok THEN "quit" ELSE s_session
       ELSE UNCHANGED <<s_quit_calls, s_session>>
    /\ s_pc' = "exited"
    /\ UNCHANGED <<s_args, s_browser, s_driver, s_raised, s_count, s_elements,
                   s_links, s_li, s_articles, s_returned>>
    /\ UNCHANGED <<s_download, s_page>>
    /\ UNCHANGED <<analyzerVars, callVars, translatorVars, utilVars, mainVars>>

----------------------------------------------------------------------------
(* ElPaisScraper: scrape_article, the loop of scrape_all, download_image *)

\* Python's None where a text is expected: no text holds an element that is
\* not a character.
None == <<"None">>

\* if value: for a text or None
Truthy(value) == value # None /\ value # <<>>

\* The characters str.strip() removes.
Whitespace == {" ", "\n", "\t"}

T_hola ==
    <<"H", "o", "l", "a", " ", "m", "u", "n", "d", "o">>

T_hello ==
    <<"H", "e", "l", "l", "o", " ", "w", "o", "r", "l", "d">>

T_primera ==
    <<"P", "r", "i", "m", "e", "r", "a", " ", "n", "o", "t", "i", "c", "i",
      "a">>

T_first ==
    <<"F", "i", "r", "s", "t", " ", "n", "e", "w", "s">>

\* "No title found"
NoTitleFound ==
    <<"N", "o", " ", "t", "i", "t", "l", "e", " ", "f", "o", "u", "n", "d">>

\* "No content found"
NoContentFound ==
    <<"N", "o", " ", "c", "o", "n", "t", "e", "n", "t", " ", "f", "o", "u",
      "n", "d">>

\* What find_element gives for one selector: it raises, or an element with
\* a text and a src attribute (None without one).
NoSuchElement == [raises |-> TRUE, text |-> <<>>, src |-> None]

Element(text, src) == [raises |-> FALSE, text |-> text, src |-> src]

\* element.text of the element the k-th title selector finds: no title, or
\* a title with white space around it.  The first and the third selector
\* find one heading, white space only when it is blank; the second and the
\* fourth find another, empty when it is blank.
TitleTexts(k) ==
    IF k % 2 = 1
    THEN { <<" ", "\n">>, <<"\n", " ">> \o T_hola \o <<" ", "\t">> }
    ELSE { <<>>, <<" ">> \o T_primera \o <<"\n">> }

\* The four selectors of _extract_title: "h1", "h1.a_t",
\* ".article_header h1", "header h1".
TitleSelectors == 1..4

\* The pages as the title selectors see them: per selector no element, or
\* an element with one of its texts.
TitlePages ==
    LET Finds(k) == {NoSuchElement} \cup {Element(t, None) : t \in TitleTexts(k)}
    IN {page \in [TitleSelectors -> UNION {Finds(k) : k \in TitleSelectors}] :
           \A k \in TitleSelectors : page[k] \in Finds(k)}

\* An _extract_title that returns the text it finds as it is.
RECURSIVE ExtractTitleUnstripped(_, _)
ExtractTitleUnstripped(page, k) ==
    IF k > 4 THEN NoTitleFound
    ELSE IF page[k].raises THEN ExtractTitleUnstripped(page, k + 1)
    ELSE page[k].text

\* _extract_title, from the k-th selector on.
RECURSIVE ExtractTitleFrom(_, _)
ExtractTitleFrom(page, k) ==
    IF k > 4 THEN NoTitleFound
    ELSE IF page[k].raises THEN ExtractTitleFrom(page, k + 1)
    ELSE LET title == Strip(page[k].text, Whitespace)
         IN IF title # <<>> THEN title ELSE ExtractTitleFrom(page, k + 1)

_extract_title(page) == ExtractTitleFrom(page, 1)

\* " ".join(paragraphs)
RECURSIVE Join(_)
Join(paragraphs) ==
    IF paragraphs = <<>> THEN <<>>
    ELSE IF Len(paragraphs) = 1 THEN paragraphs[1]
    ELSE paragraphs[1] \o <<" ">> \o Join(Tail(paragraphs))

P_uno == <<"U", "n", "o", ".">>

P_dos == <<"D", "o", "s", ".">>

\* What the four selectors of _extract_content find: nothing at all; empty
\* paragraphs, then an error, then three paragraphs among empty ones; four
\* paragraphs at once.
ContentPages ==
    { [k \in 1..4 |-> FindRaises],
      [k \in 1..4 |-> Found(<<>>)],
      [k \in 1..4 |->
          CASE k = 1 -> Found(<< <<" ">>, <<>> >>)
            [] k = 2 -> FindRaises
            [] OTHER -> Found(<< <<" ">> \o P_uno, <<>>, P_dos \o <<"\n">>,
                                 <<"\t">>, P_uno >>)],
      [k \in 1..4 |-> Found(<<P_uno, P_dos, P_uno, P_dos>>)] }

\* [elem.text.strip() for elem in elements if elem.text.strip()]
Paragraphs(elements) ==
    LET stripped == [i \in DOMAIN elements |-> Strip(elements[i], Whitespace)]
    IN SelectSeq(stripped, LAMBDA t : t # <<>>)

\* _extract_content, from the k-th selector on.
RECURSIVE ExtractContentFrom(_, _)
ExtractContentFrom(page, k) ==
    IF k > 4 THEN NoContentFound
    ELSE IF page[k].raises THEN ExtractContentFrom(page, k + 1)
    ELSE LET paragraphs == Paragraphs(page[k].elements)
         IN IF paragraphs # <<>> THEN Join(Take(paragraphs, 3))
            ELSE ExtractContentFrom(page, k + 1)

_extract_content(page) == ExtractContentFrom(page, 1)

Http == <<"h", "t", "t", "p">>

\* An image's address.
ImageSrc == Http \o <<"s", ":", "/", "/", "i", "/", "a", ".", "j", "p", "g">>

\* What the five selectors of _extract_image find: nothing; an image without
\* src; an src without "http", then an error, then an address; an address
\* at once.
ImagePages ==
    { [k \in 1..5 |-> NoSuchElement],
      [k \in 1..5 |-> Element(<<>>, IF k = 1 THEN None ELSE <<>>)],
      [k \in 1..5 |->
          CASE k = 1 -> Element(<<>>, <<"/", "a", ".", "j", "p", "g">>)
            [] k = 2 -> NoSuchElement
            [] OTHER -> Element(<<>>, ImageSrc)],
      [k \in 1..5 |-> Element(<<>>, ImageSrc)] }

\* _extract_image, from the k-th selector on.
RECURSIVE ExtractImageFrom(_, _)
ExtractImageFrom(page, k) ==
    IF k > 5 THEN None
    ELSE IF page[k].raises THEN ExtractImageFrom(page, k + 1)
    ELSE LET src == page[k].src
         IN IF Truthy(src) /\ Contains(src, Http) THEN src
            ELSE ExtractImageFrom(page, k + 1)

_extract_image(page) == ExtractImageFrom(page, 1)

\* The articles' pages below their titles: an article with paragraphs has
\* an image, one without paragraphs has none.
BodyPages ==
    {body \in ContentPages \X ImagePages :
         _extract_content(body[1]) = NoContentFound
             <=> _extract_image(body[2]) = None}

\* The contents and images the pages give.
ContentsAndImages ==
    {[content |-> _extract_content(body[1]),
      image_url |-> _extract_image(body[2])] : body \in BodyPages}

\* What scrape_article extracts from a page whose title selectors find
\* titles, when nothing raises.
Extractions(titles) ==
    {[title |-> _extract_title(titles),
      content |-> x.content,
      image_url |-> x.image_url] : x \in ContentsAndImages}

\* An article_data that holds the address of the section, not the link's.
scrape_article_of_section(url, extracted) ==
    [url |-> Host \o OpinionAny,
     title |-> extracted.title,
     content |-> extracted.content,
     image_url |-> extracted.image_url]

\* The article_data scrape_article builds from them.
scrape_article(url, extracted) ==
    [url |-> url,
     title |-> extracted.title,
     content |-> extracted.content,
     image_url |-> extracted.image_url]

\* The most links a page of the Opinion section gives in this part.
MaxLinks == 2

\* The pages of the Opinion section with at most MaxLinks article links, on
\* which no selector raises, the second finds at most three elements and the
\* third none.
ShortPages ==
    {page \in Pages :
         /\ Len(get_article_links(page, NUM_ARTICLES)) <= MaxLinks
         /\ ~page[1].raises
         /\ ~page[2].raises
         /\ Len(page[2].elements) <= 3
         /\ page[3] = Found(<<>>)}

\* ".jpg"
Jpg == <<".", "j", "p", "g">>

\* A scraper in its with-block: ElPaisScraper(browser="chrome") was
\* constructed and entered.
InitInWith ==
    /\ s_pc = "in_with"
    /\ s_args = [browser |-> B_chrome]
    /\ s_browser = B_chrome
    /\ s_driver = "driver"
    /\ s_session = "open"
    /\ s_quit_calls = 0
    /\ s_raised = "none"
    /\ s_count = 0
    /\ s_elements = 0
    /\ s_links = <<>>
    /\ s_li = 1
    /\ s_articles = <<>>
    /\ s_returned = "nothing"
    /\ s_download = NoDownload
    /\ s_page = <<>>

\* scrape_all: get_article_links(NUM_ARTICLES) on one of the short pages.
GetFewArticleLinks ==
    /\ s_pc = "get_links"
    /\ \E page \in ShortPages :
           /\ s_elements' = ElementCount(page)
           /\ s_count' = NUM_ARTICLES
           /\ s_links' = get_article_links(page, NUM_ARTICLES)
    /\ IF s_links' = <<>>
       THEN s_returned' = <<>> /\ s_pc' = "body_done"
            /\ UNCHANGED s_articles
       ELSE s_articles' = <<>> /\ s_pc' = "scrape"
            /\ UNCHANGED s_returned
    /\ s_li' = 1
    /\ UNCHANGED <<s_args, s_browser, s_driver, s_session, s_quit_calls,
                   s_raised, s_download, s_page>>
    /\ UNCHANGED <<analyzerVars, callVars, translatorVars, utilVars, mainVars>>

\* scrape_article(link): driver.get(url) and the wait for an h1 went through;
\* the driver is on the article's page.
ArticleLoads ==
    /\ s_pc = "scrape"
    /\ s_li <= Len(s_links)
    /\ \E page \in TitlePages : s_page' = page
    /\ s_pc' = "loaded"
    /\ s_download' = NoDownload
    /\ UNCHANGED <<s_args, s_browser, s_driver, s_session, s_quit_calls,
                   s_raised, s_count, s_elements, s_links, s_li, s_articles,
                   s_returned>>
    /\ UNCHANGED <<analyzerVars, callVars, translatorVars, utilVars, mainVars>>

\* The rest of scrape_article and of the loop's body: the title, the content
\* and the image are extracted and article_data is returned and appended;
\* with an image_url download_image is called next, without one the loop
\* sleeps and goes on.  The page is not read again.
ScrapeArticleReturnsData ==
    /\ s_pc = "loaded"
    /\ \E extracted \in Extractions(s_page) :
           LET article_data == scrape_article(s_links[s_li], extracted)
           IN /\ s_articles' = Append(s_articles, article_data)
              /\ IF Truthy(article_data.image_url)
                 THEN s_pc' = "download" /\ UNCHANGED s_li
                 ELSE s_li' = s_li + 1 /\ s_pc' = "scrape"
    /\ s_page' = <<>>
    /\ UNCHANGED <<s_args, s_browser, s_driver, s_session, s_quit_calls,
                   s_raised, s_count, s_elements, s_links, s_returned,
                   s_download>>
    /\ UNCHANGED <<analyzerVars, callVars, translatorVars, utilVars, mainVars>>

\* download_image returning True after a failure.
DownloadReturnsTrue(error) == "True"

\* download_image's return value: True, or False from either except clause.
DownloadReturns(error) == IF error = "none" THEN "True" ELSE "False"

\* download_image(image_url, IMAGES_DIR / (sanitize_filename(title) + ".jpg")):
\* one requests.get; it or raise_for_status raises a RequestException, or
\* opening or saving the image raises, or the image is saved.  The value
\* returned is dropped, the loop sleeps and goes on.
DownloadImage ==
    /\ s_pc = "download"
    /\ \E error \in {"none", "RequestException", "Exception"} :
           s_download' =
               [filename |->
                    sanitize_filename(s_articles[Len(s_articles)].title,
                                      DefaultMaxLength) \o Jpg,
                requests |-> 1,
                error |-> error,
                returned |-> DownloadReturns(error)]
    /\ s_li' = s_li + 1
    /\ s_pc' = "scrape"
    /\ UNCHANGED <<s_args, s_browser, s_driver, s_session, s_quit_calls,
                   s_raised, s_count, s_elements, s_links, s_articles,
                   s_returned, s_page>>
    /\ UNCHANGED <<analyzerVars, callVars, translatorVars, utilVars, mainVars>>

----------------------------------------------------------------------------
(* main(): scrape, translate, analyze *)

\* A text of the scraper or the analyzer, a sequence of characters, as the
\* string the translator takes it for.
Str(chars) ==
    CASE chars = T_hola -> "Hola mundo"
      [] chars = T_hello -> "Hello world"
      [] chars = T_primera -> "Primera noticia"
      [] chars = T_first -> "First news"
      [] chars = NoTitleFound -> "No title found"

\* A string of the translator as the sequence of its characters.
Chars(text) ==
    CASE text = "Hola mundo" -> T_hola
      [] text = "Hello world" -> T_hello
      [] text = "Primera noticia" -> T_primera
      [] text = "First news" -> T_first
      [] text = "No title found" -> NoTitleFound

\* The articles as get_translated_headers reads them: their titles.
ArticlesRead(articles) ==
    [i \in DOMAIN articles |-> [title |-> Str(articles[i].title)]]

\* [t['translated'] for t in translations]
TranslatedHeaders(translations) ==
    [i \in DOMAIN translations |-> Chars(translations[i].translated)]

\* with ElPaisScraper(browser=args.browser, ...): argparse lets through
\* "chrome", "firefox" and "edge" only.
MainConstructs ==
    /\ m_pc = "start"
    /\ s_pc = "start"
    /\ \E b \in SupportedBrowsers :
           /\ s_args' = [browser |-> b]
           /\ s_browser' = Lower(b)
    /\ s_driver' = "None"
    /\ s_articles' = <<>>
    /\ s_pc' = "initialize"
    /\ m_pc' = "scrape"
    /\ UNCHANGED <<s_session, s_quit_calls, s_raised, s_count, s_elements,
                   s_links, s_li, s_returned, s_download, s_page>>
    /\ UNCHANGED <<analyzerVars, callVars, translatorVars, utilVars, m_exit>>

\* scrape_all has returned, the with-block left or not.
ScrapeAllReturned == s_pc \in {"body_done", "exited"}

\* The statement after the with-block is reached: __exit__ has run.
WithBlockLeft == s_pc = "exited"

\* The constructor or the with-block raised: one of main's except clauses
\* returns 1.
MainScraperRaised ==
    /\ m_pc = "scrape"
    /\ s_pc \in {"init_failed", "exited"}
    /\ s_raised # "none"
    /\ m_exit' = 1
    /\ m_pc' = "returned"
    /\ UNCHANGED <<analyzerVars, callVars, translatorVars, scraperVars,
                   utilVars>>

\* if not articles: return 1
MainNoArticles ==
    /\ m_pc = "scrape"
    /\ WithBlockLeft
    /\ s_raised = "none"
    /\ s_returned = <<>>
    /\ m_exit' = 1
    /\ m_pc' = "returned"
    /\ UNCHANGED <<analyzerVars, callVars, translatorVars, scraperVars,
                   utilVars>>

\* Step 2: the articles are printed, the translator is made and
\* get_translated_headers(articles) runs up to its loop.
MainTranslates ==
    /\ m_pc = "scrape"
    /\ WithBlockLeft
    /\ s_raised = "none"
    /\ s_returned # <<>>
    /\ t_input' = ArticlesRead(s_returned)
    /\ t_op' = "get_translated_headers"
    /\ t_pc' = "item"
    /\ t_i' = 1
    /\ t_retry' = DefaultRetryCount
    /\ t_attempt' = 0
    /\ t_results' = <<>>
    /\ t_raised' = "none"
    /\ t_log' = <<>>
    /\ m_pc' = "translate"
    /\ UNCHANGED <<analyzerVars, callVars, scraperVars, utilVars, m_exit>>

\* Step 3: the translations are printed, the analyzer is made with
\* MIN_WORD_OCCURRENCES and analyze_headers runs on the translated headers.
MainAnalyzes ==
    /\ m_pc = "translate"
    /\ t_pc = "done"
    /\ headers' = TranslatedHeaders(t_results)
    /\ word_counts' = count_words(headers')
    /\ filter_in' = word_counts'
    /\ repeated_words' = filter_repeated_words(word_counts', min_occurrences)
    /\ sorted_words' = sort_by_count_desc(repeated_words')
    /\ a_last' = "analyze_headers"
    /\ a_raised' = "none"
    /\ m_pc' = "analyze"
    /\ UNCHANGED <<min_occurrences, print_in, printed>>
    /\ UNCHANGED <<callVars, translatorVars, scraperVars, utilVars, m_exit>>

\* print_analysis(word_analysis), the summary, return 0.
MainReturnsZero ==
    /\ m_pc = "analyze"
    /\ print_in' = sorted_words
    /\ printed' =
           <<Line("rule"), Line("title"), Line("rule"),
             CaptionLine(min_occurrences)>>
               \o TableLines(print_in') \o <<Line("rule")>>
    /\ a_last' = "print_analysis"
    /\ m_exit' = 0
    /\ m_pc' = "returned"
    /\ UNCHANGED <<min_occurrences, a_raised, headers, filter_in, word_counts,
                   repeated_words, sorted_words>>
    /\ UNCHANGED <<callVars, translatorVars, scraperVars, utilVars>>

\* An exception or a KeyboardInterrupt in step 2 or step 3 (the printing
\* included): it leaves the call under way and an except clause returns 1.
MainRaises ==
    /\ m_pc \in {"translate", "analyze"}
    /\ IF t_pc = "item"
       THEN t_pc' = "raised" /\ t_raised' = "Exception"
       ELSE UNCHANGED <<t_pc, t_raised>>
    /\ m_exit' = 1
    /\ m_pc' = "returned"
    /\ UNCHANGED <<t_op, t_input, t_i, t_retry, t_attempt, t_results, t_log>>
    /\ UNCHANGED <<analyzerVars, callVars, scraperVars, utilVars>>

----------------------------------------------------------------------------
(* Specifications: one per component *)

\* main() has not been called.
InitPipeline ==
    /\ m_pc = "start"
    /\ m_exit = 0 - 1

Init ==
    /\ InitAnalyzer
    /\ InitCalls
    /\ InitTranslator
    /\ InitScraper
    /\ InitUtil
    /\ InitPipeline

NextAnalyzer ==
    \/ CountWords
    \/ FilterRepeatedWords
    \/ FilterFilteredWords
    \/ AnalyzeHeaders
    \/ PrintAnalysis

NextCalls == CallerEnters \/ CallerCounts \/ CallerReturns

NextUtil == CallSanitizeFilename

NextTranslator ==
    \/ StartTranslateText
    \/ StartTranslateTitles
    \/ StartGetTranslatedHeaders
    \/ TranslateEmptyText
    \/ AttemptSucceeds
    \/ AttemptFailsRetry
    \/ AttemptFailsLast
    \/ RetryLoopOver
    \/ TranslatorReturns

NextScraper ==
    \/ Construct
    \/ ConstructWithDriver
    \/ InitUnsupportedBrowser
    \/ CreateDriverFails
    \/ CreateFirefoxWindowSizeFails
    \/ CreateDriverOk
    \/ SetTimeoutsFails
    \/ SetTimeoutsOk
    \/ EnterWith
    \/ NavigateFails
    \/ NavigateOk
    \/ CallGetArticleLinks
    \/ GetArticleLinks
    \/ ScrapeArticleFails
    \/ ScrapeArticleOk
    \/ ScrapeAllReturns
    \/ BodyRaises
    \/ ExitWith

\* The analyzer alone, from every threshold and header list.
SpecAnalyzer == Init /\ [][NextAnalyzer]_vars

\* config.MIN_WORD_OCCURRENCES
MIN_WORD_OCCURRENCES == 3

\* main's analyzer, before it has headers to analyze.
InitMain ==
    /\ Init
    /\ min_occurrences = MIN_WORD_OCCURRENCES
    /\ headers = <<>>

\* Callers that share one analyzer, constructed with any threshold.
InitCallers == Init /\ headers = <<>>

SpecCalls == InitCallers /\ [][NextCalls]_vars

\* The translator alone.
SpecTranslator == InitMain /\ [][NextTranslator]_vars

\* The scraper alone.
SpecScraper == InitMain /\ [][NextScraper]_vars

\* scrape_all of a scraper in its with-block, article by article.
NextScrapeAll ==
    \/ NavigateFails
    \/ NavigateOk
    \/ GetFewArticleLinks
    \/ ScrapeArticleFails
    \/ ArticleLoads
    \/ ScrapeArticleReturnsData
    \/ DownloadImage
    \/ ScrapeAllReturns
    \/ BodyRaises
    \/ ExitWith

InitScrapeAll ==
    /\ InitAnalyzer
    /\ min_occurrences = MIN_WORD_OCCURRENCES
    /\ headers = <<>>
    /\ InitCalls
    /\ InitTranslator
    /\ InitInWith
    /\ InitUtil
    /\ InitPipeline

SpecScrapeAll == InitScrapeAll /\ [][NextScrapeAll]_vars

\* main() from its call to its return.
NextMain ==
    \/ MainConstructs
    \/ CreateDriverFails
    \/ CreateFirefoxWindowSizeFails
    \/ CreateDriverOk
    \/ SetTimeoutsFails
    \/ SetTimeoutsOk
    \/ EnterWith
    \/ NavigateFails
    \/ NavigateOk
    \/ GetFewArticleLinks
    \/ ScrapeArticleFails
    \/ ArticleLoads
    \/ ScrapeArticleReturnsData
    \/ DownloadImage
    \/ ScrapeAllReturns
    \/ BodyRaises
    \/ ExitWith
    \/ MainScraperRaised
    \/ MainNoArticles
    \/ MainTranslates
    \/ AttemptSucceeds
    \/ AttemptFailsRetry
    \/ AttemptFailsLast
    \/ TranslatorReturns
    \/ MainAnalyzes
    \/ MainReturnsZero
    \/ MainRaises

SpecMain == InitMain /\ [][NextMain]_vars

\* sanitize_filename on one text.
InitSanitize ==
    /\ InitAnalyzer
    /\ min_occurrences = MIN_WORD_OCCURRENCES
    /\ headers = <<>>
    /\ InitCalls
    /\ InitTranslator
    /\ InitScraper
    /\ InitSanitizeInputs
    /\ InitPipeline

SpecSanitize == InitSanitize /\ [][NextUtil]_vars

----------------------------------------------------------------------------
(* The analyzer's properties.  They are stated without the operators of   *)
(* the implementation: letter case by UpperChar, occurrences by position. *)

CountDone == a_last \in {"count_words", "analyze_headers"}

FilterDone == a_last \in {"filter_repeated_words", "analyze_headers"}

\* The lowercase letter of an ASCII letter, found through UpperChar.
RefLowerChar(c) ==
    IF \E d \in LowerAscii : UpperChar(d) = c
    THEN CHOOSE d \in LowerAscii : UpperChar(d) = c
    ELSE IF \E d \in AccentedLower : UpperChar(d) = c
    THEN CHOOSE d \in AccentedLower : UpperChar(d) = c
    ELSE c

RefLower(s) == [i \in DOMAIN s |-> RefLowerChar(s[i])]

RefUpper(s) == [i \in DOMAIN s |-> UpperChar(s[i])]

SwapCaseChar(c) == IF UpperChar(c) # c THEN UpperChar(c) ELSE RefLowerChar(c)

SwapCase(s) == [i \in DOMAIN s |-> SwapCaseChar(s[i])]

SwapFirst(s) == [i \in DOMAIN s |-> IF i = 1 THEN SwapCaseChar(s[i]) ELSE s[i]]

\* A token: only lowercase ASCII letters, longer than 2 characters.
IsToken(w) == Len(w) > 2 /\ \A i \in DOMAIN w : w[i] \in LowerAscii

\* Token w stands in header h at position i, in any letter case, as a word:
\* no word character before it and none after it.
OccursAt(w, h, i) ==
    /\ i + Len(w) - 1 <= Len(h)
    /\ \A k \in 1..Len(w) : h[i + k - 1] \in {w[k], UpperChar(w[k])}
    /\ i = 1 \/ ~IsWordChar(h[i - 1])
    /\ i + Len(w) > Len(h) \/ ~IsWordChar(h[i + Len(w)])

Occurrences(w, h) == Cardinality({i \in 1..Len(h) : OccursAt(w, h, i)})

RECURSIVE TotalOccurrences(_, _)
TotalOccurrences(w, hs) ==
    IF hs = <<>> THEN 0
    ELSE Occurrences(w, Head(hs)) + TotalOccurrences(w, Tail(hs))

IsAsciiLetter(c) == c \in LowerAscii \cup UpperAscii

\* h[i..j] is a word of ASCII letters: no word character before it and none
\* after it.
IsWordAt(h, i, j) ==
    /\ i <= j
    /\ \A k \in i..j : IsAsciiLetter(h[k])
    /\ i = 1 \/ ~IsWordChar(h[i - 1])
    /\ j = Len(h) \/ ~IsWordChar(h[j + 1])

\* The words of ASCII letters that stand in some header, lowercased.
WordsIn(hs) ==
    UNION { { RefLower(SubSeq(hs[n], p[1], p[2])) :
                p \in { q \in (1..Len(hs[n])) \X (1..Len(hs[n])) :
                           IsWordAt(hs[n], q[1], q[2]) } } : n \in DOMAIN hs }

UniqueKeys(table) == Cardinality(Keys(table)) = Len(table)

AnalyzedTestHeaders ==
    a_last = "analyze_headers" /\ headers = TestHeaders /\ min_occurrences = 3

C4_FilterKeepsExactlyCountsAtLeastT ==
    FilterDone =>
        /\ \A e \in Range(filter_in) :
               (e[2] >= min_occurrences) <=> (e \in Range(repeated_words))
        /\ Range(repeated_words) \subseteq Range(filter_in)
        /\ UniqueKeys(repeated_words)

\* The test's Counter {the: 5, quick: 2, brown: 1, fox: 3} filtered at
\* threshold 3.
C4_Witness ==
    /\ a_last = "filter_repeated_words"
    /\ min_occurrences = 3
    /\ filter_in = TestCounter
    /\ repeated_words = << <<W_the, 5>>, <<W_fox, 3>> >>

\* C5: the entries of the mapping analyze_headers returns are in
\* non-increasing order of count.
C5_ResultSortedByCountDescending ==
    a_last = "analyze_headers" =>
        \A i \in 1..(Len(sorted_words) - 1) :
            sorted_words[i][2] >= sorted_words[i + 1][2]

\* An analysis whose filtered table was not in order yet.
C5_Witness ==
    /\ a_last = "analyze_headers"
    /\ \E i \in 1..(Len(repeated_words) - 1) :
           repeated_words[i][2] < repeated_words[i + 1][2]
    /\ Len(sorted_words) = Len(repeated_words)

\* Header lists that differ from hs only in letter case: one header in upper
\* case or with its first letter's case swapped, or all the headers in upper
\* case, in lower case, or with every letter's case swapped.
CaseVariants(hs) ==
    { [i \in DOMAIN hs |-> IF i = n THEN RefUpper(hs[i]) ELSE hs[i]] :
          n \in DOMAIN hs }
    \cup { [i \in DOMAIN hs |-> IF i = n THEN SwapFirst(hs[i]) ELSE hs[i]] :
          n \in DOMAIN hs }
    \cup { [i \in DOMAIN hs |-> RefUpper(hs[i])],
           [i \in DOMAIN hs |-> RefLower(hs[i])],
           [i \in DOMAIN hs |-> SwapCase(hs[i])] }

\* C9: header lists that differ only in letter case get the same table from
\* count_words and from analyze_headers, and every key is lowercase.
C9_CaseInsensitive ==
    CountDone =>
        /\ \A k \in Keys(word_counts) : \A i \in DOMAIN k : UpperChar(k[i]) # k[i]
        /\ \A v \in CaseVariants(headers) :
               IF a_last = "count_words"
               THEN count_words(v) = word_counts
               ELSE analyze_headers(v, min_occurrences) = sorted_words

\* count_words(["The Cat"]) has the keys "the" and "cat".
C9_Witness ==
    /\ a_last = "count_words"
    /\ headers = <<Cap(W_the) \o SP \o Cap(W_cat)>>
    /\ word_counts = << <<W_the, 1>>, <<W_cat, 1>> >>

\* The words of h made of ASCII letters only, three or more of them, that
\* have a space or the end of the header on each side; lowercased.
SpaceDelimitedWords(h) ==
    { RefLower(SubSeq(h, i, j)) :
        <<i, j>> \in { p \in (1..Len(h)) \X (1..Len(h)) :
                         /\ p[2] - p[1] >= 2
                         /\ \A k \in p[1]..p[2] : IsAsciiLetter(h[k])
                         /\ p[1] = 1 \/ h[p[1] - 1] = " "
                         /\ p[2] = Len(h) \/ h[p[2] + 1] = " " } }

\* C10: no word of length 1 or 2 is a key of what count_words or
\* analyze_headers returns, and every word of three or more ASCII letters
\* that spaces delimit is counted.
C10_ShortWordsExcludedLongWordsCounted ==
    CountDone =>
        /\ \A k \in Keys(word_counts) \cup Keys(sorted_words) : Len(k) >= 3
        /\ \A n \in DOMAIN headers : \A w \in SpaceDelimitedWords(headers[n]) :
               Get(word_counts, w) >= 1

\* count_words(["A big ox"]) has the one key "big".
C10_Witness ==
    /\ a_last = "count_words"
    /\ headers = << <<"A">> \o SP \o W_big \o SP \o <<"o", "x">> >>
    /\ word_counts = << <<W_big, 1>> >>

\* The tokens that stand in some header.
TokensIn(hs) == {w \in WordsIn(hs) : IsToken(w)}

\* C11: with threshold 1 analyze_headers returns the full frequency table,
\* every token that occurs at least once with its count and nothing else; with
\* a threshold greater than every token's count it returns the empty mapping.
C11_ThresholdOneKeepsAllAboveMaxKeepsNone ==
    a_last = "analyze_headers" =>
        /\ min_occurrences = 1 =>
               /\ UniqueKeys(sorted_words)
               /\ Keys(sorted_words) = TokensIn(headers)
               /\ \A w \in TokensIn(headers) :
                      Get(sorted_words, w) = TotalOccurrences(w, headers)
        /\ (\A w \in TokensIn(headers) :
                TotalOccurrences(w, headers) < min_occurrences) =>
               sorted_words = <<>>

\* analyze_headers(["the the", "the cat"]) with threshold 1 returns
\* {the: 3, cat: 1}.
C11_Witness ==
    /\ a_last = "analyze_headers"
    /\ min_occurrences = 1
    /\ headers = <<W_the \o SP \o W_the, W_the \o SP \o W_cat>>
    /\ sorted_words = << <<W_the, 3>>, <<W_cat, 1>> >>

\* The other case of C11: analyze_headers(["the the", "the cat"]) with
\* threshold 4, above the largest count, returns {}.
AboveMaxCountAnalyzed ==
    /\ a_last = "analyze_headers"
    /\ min_occurrences = 4
    /\ headers = <<W_the \o SP \o W_the, W_the \o SP \o W_cat>>
    /\ word_counts # <<>>
    /\ sorted_words = <<>>

\* C12: filtering is idempotent: filter_repeated_words given the mapping a
\* filter with the same threshold returned returns a mapping equal to it.
C12_FilterIdempotent ==
    [][(/\ FilterDone
        /\ a_last' = "filter_repeated_words"
        /\ filter_in' = repeated_words) => repeated_words' = repeated_words]_vars

\* The test's Counter filtered at threshold 3, and the result {the: 5, fox: 3}
\* filtered again.
C12_Witness ==
    /\ a_last = "filter_repeated_words"
    /\ min_occurrences = 3
    /\ filter_in = << <<W_the, 5>>, <<W_fox, 3>> >>
    /\ repeated_words = filter_in

\* The header lists that hold the headers of hs in another order.
Reorderings(hs) ==
    { [i \in DOMAIN hs |-> hs[f[i]]] :
        f \in { g \in [DOMAIN hs -> DOMAIN hs] :
                   \A i, j \in DOMAIN hs : g[i] = g[j] => i = j } }

\* C13: the counts do not depend on the order of the headers: count_words on
\* any reordering of the header list gives every word the same count.
C13_CountIndependentOfHeaderOrder ==
    a_last = "count_words" =>
        \A p \in Reorderings(headers) :
            LET table == count_words(p)
            IN \A w \in Keys(table) \cup Keys(word_counts) :
                   Get(table, w) = Get(word_counts, w)

\* count_words(["the cat", "A big ox"]): the other order of the two headers
\* gives the keys in another order.
C13_Witness ==
    /\ a_last = "count_words"
    /\ headers = <<W_the \o SP \o W_cat, <<"A">> \o SP \o W_big \o SP \o <<"o", "x">> >>
    /\ word_counts = << <<W_the, 1>>, <<W_cat, 1>>, <<W_big, 1>> >>
    /\ count_words(<<headers[2], headers[1]>>) # word_counts

\* A header without three ASCII letters in a row: empty, or only short
\* words, or no letters at all.
NoLongLetterRun(h) ==
    ~\E i \in 1..(Len(h) - 2) :
        IsAsciiLetter(h[i]) /\ IsAsciiLetter(h[i + 1]) /\ IsAsciiLetter(h[i + 2])

\* C14: for the empty header list and for a list whose headers are all empty,
\* all short or without letters, analyze_headers with a positive threshold
\* raises nothing and returns the empty mapping.
C14_DegenerateInputGivesEmptyResult ==
    (/\ a_last = "analyze_headers"
     /\ min_occurrences >= 1
     /\ \A n \in DOMAIN headers : NoLongLetterRun(headers[n])) =>
        a_raised = "none" /\ sorted_words = <<>>

\* analyze_headers(["An ox", "", "12 - 7"]) with threshold 1 returned {}.
C14_Witness ==
    /\ a_last = "analyze_headers"
    /\ min_occurrences = 1
    /\ Len(headers) = 3
    /\ headers[1] = <<"A", "n">> \o SP \o <<"o", "x">>
    /\ headers[2] = <<>>
    /\ a_raised = "none"
    /\ sorted_words = <<>>

\* The test's case: analyze_headers([]) returned {}.
EmptyListAnalyzed ==
    /\ a_last = "analyze_headers"
    /\ min_occurrences >= 1
    /\ headers = <<>>
    /\ sorted_words = <<>>

\* C15: a call of analyze_headers returns what its own header list and the
\* threshold determine, whatever calls of other callers ran before it or
\* between its steps and whatever the same caller called before; no step of a
\* call changes the analyzer's threshold or any caller's header list.
C15_CallsIndependent ==
    /\ [](\A c \in Callers :
            c_pc[c] = "returned" =>
                c_result[c] = analyze_headers(c_headers[c], min_occurrences))
    /\ [][/\ min_occurrences' = min_occurrences
          /\ \A c \in Callers :
                 c_pc[c] = "loop" => c_headers'[c] = c_headers[c]]_vars

\* Caller "a" has its result for ["the cat", "cat cat"] at threshold 2,
\* {cat: 3}, while caller "b" is inside count_words' loop with the words of
\* its own first header collected.
C15_Witness ==
    /\ min_occurrences = 2
    /\ c_pc["a"] = "returned"
    /\ c_headers["a"] = <<W_the \o SP \o W_cat, W_cat \o SP \o W_cat>>
    /\ c_result["a"] = << <<W_cat, 3>> >>
    /\ c_pc["b"] = "loop"
    /\ c_headers["b"] = <<W_cat \o SP \o W_cat, W_the \o SP \o W_cat>>
    /\ c_all_words["b"] = <<W_cat, W_cat>>

\* Two calls are inside count_words' loop at once, each with words collected.
CallsInterleaved ==
    \A c \in Callers : c_pc[c] = "loop" /\ c_all_words[c] # <<>>

\* The positions of the lines of a kind in what was printed.
LinesOfKind(kind) == {i \in DOMAIN printed : printed[i].kind = kind}

\* C19: for empty results print_analysis writes the 'No words found' message
\* and neither the header row nor a data row; for other results it writes no
\* such message, one header row, and after it one row per entry of the
\* mapping, in the mapping's order, with the entry's word and count.
C19_PrintedTableMatchesResults ==
    a_last = "print_analysis" =>
        LET rows == SelectSeq(printed, LAMBDA l : l.kind = "row")
        IN IF print_in = <<>>
           THEN /\ Cardinality(LinesOfKind("no words found")) = 1
                /\ LinesOfKind("header") = {}
                /\ rows = <<>>
           ELSE /\ LinesOfKind("no words found") = {}
                /\ Cardinality(LinesOfKind("header")) = 1
                /\ \A h \in LinesOfKind("header") :
                       \A r \in LinesOfKind("row") : h < r
                /\ Len(rows) = Len(print_in)
                /\ \A i \in DOMAIN rows :
                       /\ rows[i].word = print_in[i][1]
                       /\ rows[i].count = print_in[i][2]

\* print_analysis({cat: 2, the: 4}) wrote the header, the dashes and two rows
\* between the banner and the closing rule.
C19_Witness ==
    /\ a_last = "print_analysis"
    /\ print_in = << <<W_cat, 2>>, <<W_the, 4>> >>
    /\ Len(printed) = 9
    /\ printed[5].kind = "header"
    /\ printed[7] = RowLine(<<W_cat, 2>>)
    /\ printed[8] = RowLine(<<W_the, 4>>)

\* print_analysis({}) wrote the message.
EmptyResultsPrinted ==
    /\ a_last = "print_analysis"
    /\ print_in = <<>>
    /\ printed[5].kind = "no words found"

\* h[i..j] is a maximal run of ASCII letters: no ASCII letter before it and
\* none after it.
IsLetterRunAt(h, i, j) ==
    /\ i <= j
    /\ \A k \in i..j : IsAsciiLetter(h[k])
    /\ i = 1 \/ ~IsAsciiLetter(h[i - 1])
    /\ j = Len(h) \/ ~IsAsciiLetter(h[j + 1])

\* The maximal runs of ASCII letters longer than 2 that stand in some header,
\* lowercased, whatever character stands next to them.
LetterRuns(hs) ==
    UNION { { RefLower(SubSeq(hs[n], p[1], p[2])) :
                p \in { q \in (1..Len(hs[n])) \X (1..Len(hs[n])) :
                           /\ q[2] - q[1] >= 2
                           /\ IsLetterRunAt(hs[n], q[1], q[2]) } } :
            n \in DOMAIN hs }

\* C20 as the specification states it: the tokens are exactly the maximal
\* runs of ASCII letters longer than 2, lowercased, a run next to a digit, an
\* underscore or an accented letter included.
C20_TokensAreLetterRuns ==
    a_last = "count_words" => Keys(word_counts) = LetterRuns(headers)

\* C20: the tokens are exactly the runs of ASCII letters longer than 2,
\* lowercased, that have on each side a string edge or a character that is
\* no letter of any script, no digit and no underscore; a run that has no
\* such occurrence is no token; every character of a token is in a-z.
C20_TokensAreDelimitedLetterRuns ==
    a_last = "count_words" =>
        /\ Keys(word_counts) = TokensIn(headers)
        /\ \A w \in LetterRuns(headers) \ TokensIn(headers) :
               Get(word_counts, w) = 0
        /\ \A k \in Keys(word_counts) : \A i \in DOMAIN k : k[i] \in LowerAscii

\* count_words(["cat12 big_bar th(e acute)", "A big ox"]) has the one key
\* "big", from the second header: "cat" before digits and "big" and "bar"
\* joined by an underscore are not extracted.
C20_Witness ==
    /\ a_last = "count_words"
    /\ Len(headers) = 2
    /\ headers[1] = W_cat \o <<"1", "2">> \o SP \o W_big \o <<"_">> \o W_bar \o SP
                         \o <<"t", "h", "eacute">>
    /\ LetterRuns(headers) = {W_cat, W_big, W_bar}
    /\ word_counts = << <<W_big, 1>> >>

\* Where token w stands in the headers: <<header, position>>.
Places(w, hs) ==
    {p \in UNION {{<<n, i>> : i \in 1..Len(hs[n])} : n \in DOMAIN hs} :
        OccursAt(w, hs[p[1]], p[2])}

\* Place p comes before place q in reading order.
Before(p, q) == p[1] < q[1] \/ (p[1] = q[1] /\ p[2] < q[2])

\* Token v is seen in the headers before token w is.
SeenFirst(v, w, hs) ==
    \E p \in Places(v, hs) : \A q \in Places(w, hs) : Before(p, q)

\* C24: entries of analyze_headers' result with equal counts stand in the
\* order in which their words were first seen in the headers.
C24_TiesInFirstSeenOrder ==
    a_last = "analyze_headers" =>
        \A i, j \in DOMAIN sorted_words :
            (i < j /\ sorted_words[i][2] = sorted_words[j][2]) =>
                SeenFirst(sorted_words[i][1], sorted_words[j][1], headers)

\* An analysis with two words of equal count in the result, which the sort
\* had to put in order.
C24_Witness ==
    /\ a_last = "analyze_headers"
    /\ sorted_words # repeated_words
    /\ \E i, j \in DOMAIN sorted_words :
           /\ i < j
           /\ sorted_words[i][2] = sorted_words[j][2]

----------------------------------------------------------------------------
(* The translator's properties *)

\* The text of the i-th item of the list.
ItemText(i) ==
    IF t_op = "get_translated_headers" THEN ArticleTitle(t_input[i])
    ELSE t_input[i]

\* The value the list holds for the i-th item.
Translated(i) ==
    IF t_op = "get_translated_headers" THEN t_results[i]["translated"]
    ELSE t_results[i]

LogCount(event, i) ==
    Cardinality({k \in DOMAIN t_log : t_log[k] = <<event, i>>})

\* The service answered a call for the i-th item.
Answered(i) == LogCount("ok", i) > 0

\* Every attempt for the i-th item was made and failed.
AllAttemptsFailed(i) ==
    LogCount("raise", i) = t_retry /\ ~Answered(i)

\* C6: the list returned has one element per input, in the input's order:
\* the i-th is the service's translation of the i-th title, or that title when
\* no call for it was answered; a record's 'original' is the article's title.
C6_TranslationOneToOneInOrder ==
    /\ t_pc = "done" => Len(t_results) = Len(t_input)
    /\ t_pc = "item" => Len(t_results) = t_i - 1
    /\ \A i \in DOMAIN t_results :
           /\ Translated(i) = IF Answered(i) THEN Translation(ItemText(i))
                              ELSE ItemText(i)
           /\ t_op = "get_translated_headers" =>
                  t_results[i]["original"] = ArticleTitle(t_input[i])

\* translate_titles(["Hola mundo", "Primera noticia"]) where the second title's
\* calls all failed.
C6_Witness ==
    /\ t_pc = "done"
    /\ t_op = "translate_titles"
    /\ t_input = <<"Hola mundo", "Primera noticia">>
    /\ t_results = <<"Hello world", "Primera noticia">>

\* C7: when every attempt for an item fails the item's value is the original
\* text, not empty; nothing is raised; the rest of the list is processed, so the
\* list returned is as long as the input.
C7_FailedItemKeepsOriginalText ==
    /\ t_raised = "none"
    /\ t_pc = "done" => Len(t_results) = Len(t_input)
    /\ \A i \in DOMAIN t_results :
           (ItemText(i) # "" /\ AllAttemptsFailed(i)) =>
               Translated(i) = ItemText(i) /\ Translated(i) # ""

\* get_translated_headers on two articles: every attempt for the first one
\* failed, the second one was translated after it.
C7_Witness ==
    /\ t_pc = "done"
    /\ t_op = "get_translated_headers"
    /\ Len(t_input) = 2
    /\ AllAttemptsFailed(1)
    /\ Answered(2)
    /\ t_results =
           << [original |-> "Hola mundo", translated |-> "Hola mundo"],
              [original |-> "Primera noticia", translated |-> "First news"] >>

\* translate_text was called by itself, on a text that is not empty.
TextCall == t_op = "translate_text" /\ t_input[1] # ""

\* The calls of the service made for the i-th item so far.
ServiceCalls(i) == LogCount("ok", i) + LogCount("raise", i)

\* The translator's steps other than the starts of new calls: the program is
\* sequential and every call of the service returns or raises, so a call of
\* translate_text that can take a step takes one.
TranslatorStep ==
    \/ TranslateEmptyText
    \/ AttemptSucceeds
    \/ AttemptFailsRetry
    \/ AttemptFailsLast
    \/ RetryLoopOver
    \/ TranslatorReturns

FairSpecTranslator ==
    InitMain /\ [][NextTranslator]_vars /\ WF_vars(TranslatorStep)

\* What C21 says of the calls made so far and of the value returned.
RetryLoopBounded ==
    TextCall =>
        /\ ServiceCalls(1) <= (IF t_retry > 0 THEN t_retry ELSE 0)
        /\ \A k \in DOMAIN t_log :
               /\ t_log[k][1] = "ok" => k = Len(t_log) /\ t_results # <<>>
               /\ t_log[k][1] = "raise" =>
                      IF LogCount("raise", 1) = t_retry /\ k = Len(t_log)
                      THEN t_results # <<>>
                      ELSE /\ k < Len(t_log)
                           /\ t_log[k + 1][1] = "sleep 1"
               /\ t_log[k][1] = "sleep 1" =>
                      /\ k > 1
                      /\ t_log[k - 1][1] = "raise"
                      /\ k = Len(t_log) => t_results = <<>>
        /\ t_results # <<>> =>
               /\ Len(t_results) = 1
               /\ t_raised = "none"
               /\ t_results[1] = IF Answered(1) THEN Translation(t_input[1])
                                 ELSE t_input[1]
               /\ ~Answered(1) =>
                      ServiceCalls(1) = (IF t_retry > 0 THEN t_retry ELSE 0)
        /\ t_retry <= 0 => t_log = <<>>

\* C21: translate_text(text, retry_count) on a text that is not empty calls the
\* service at most retry_count times, stops at the first call that succeeds and
\* returns its text, sleeps after every failed attempt but the last, returns
\* the original text when all attempts failed, and always returns; with
\* retry_count <= 0 it makes no call and returns the original text.
C21_RetryLoopBoundedAndTerminates ==
    /\ []RetryLoopBounded
    /\ (t_op = "translate_text" /\ t_pc = "item") ~> (t_pc = "done")

\* translate_text("Hola mundo", 3): two attempts failed, each followed by a
\* sleep, the third was answered.
C21_Witness ==
    /\ t_pc = "done"
    /\ t_op = "translate_text"
    /\ t_retry = 3
    /\ t_log = << <<"raise", 1>>, <<"sleep 1", 1>>, <<"raise", 1>>,
                  <<"sleep 1", 1>>, <<"ok", 1>> >>
    /\ t_results = <<"Hello world">>

\* translate_text("Hola mundo", 0) returned the text without a call.
NoAttemptReturnsText ==
    /\ t_pc = "done"
    /\ t_op = "translate_text"
    /\ t_retry = 0
    /\ t_log = <<>>
    /\ t_results = <<"Hola mundo">>

\* An article without a title, or with the empty title.
NoTitle(article) ==
    IF "title" \in DOMAIN article THEN article["title"] = "" ELSE TRUE

\* C25: translate_text on the empty text returns "" and calls the service not
\* once; get_translated_headers gives an article whose title is empty or
\* missing exactly one record, {original: '', translated: ''}, at the
\* article's place.
C25_EmptyTextTranslatedWithoutCall ==
    /\ (t_op = "translate_text" /\ t_input[1] = "") =>
               /\ t_log = <<>>
               /\ t_results \in {<<>>, <<"">>}
               /\ t_pc = "done" => t_results = <<"">>
    /\ t_op = "get_translated_headers" =>
           /\ t_pc = "done" => Len(t_results) = Len(t_input)
           /\ \A i \in DOMAIN t_results :
                  NoTitle(t_input[i]) =>
                      /\ t_results[i] = [original |-> "", translated |-> ""]
                      /\ ServiceCalls(i) = 0

\* get_translated_headers on an article without a title and one with a
\* title: the first gave the empty record without a call, the second was
\* translated.
C25_Witness ==
    /\ t_pc = "done"
    /\ t_op = "get_translated_headers"
    /\ t_input = <<NoTitleArticle, [title |-> "Hola mundo"]>>
    /\ ServiceCalls(1) = 0
    /\ t_results =
           << [original |-> "", translated |-> ""],
              [original |-> "Hola mundo", translated |-> "Hello world"] >>

\* translate_text("") returned "".
EmptyTextReturned ==
    /\ t_pc = "done"
    /\ t_op = "translate_text"
    /\ t_input = <<"">>
    /\ t_results = <<"">>

----------------------------------------------------------------------------
(* sanitize_filename's properties *)

\* A filename without the characters < > : " / \ | ? * and without a space,
\* without two underscores in a row and without an underscore at either end.
CleanFilename(name) ==
    /\ \A i \in DOMAIN name : name[i] \notin InvalidChars \cup {" "}
    /\ \A i \in 1..(Len(name) - 1) : ~(name[i] = "_" /\ name[i + 1] = "_")
    /\ name # <<>> => name[1] # "_" /\ name[Len(name)] # "_"

\* Sanitizing the filename again, with the same max_length and with the
\* default, gives the filename.
Resanitized ==
    /\ sanitize_filename(f_filename, f_max_length) = f_filename
    /\ sanitize_filename(f_filename, DefaultMaxLength) = f_filename

\* C26 as stated: for every text and every max_length the result is clean,
\* at most max_length long and unchanged by sanitizing it again.
C26_FilenameCleanBoundedIdempotent ==
    f_pc = "called" =>
        /\ CleanFilename(f_filename)
        /\ Len(f_filename) <= f_max_length
        /\ Resanitized

\* C26, amended: for every text and every max_length the result is clean;
\* when max_length is not negative it is at most max_length long and
\* unchanged by sanitizing it again; a negative max_length cuts characters
\* off the end instead, so the result is shorter than the text by at least
\* -max_length characters, or empty.
C26_FilenameCleanAndBoundedFromZero ==
    f_pc = "called" =>
        /\ CleanFilename(f_filename)
        /\ f_max_length >= 0 =>
               /\ Len(f_filename) <= f_max_length
               /\ Resanitized
        /\ f_max_length < 0 =>
               \/ f_filename = <<>>
               \/ Len(f_filename) <= Len(f_text) + f_max_length

\* sanitize_filename("a  a", 2): the two spaces became one underscore, which
\* the cut left at the end and strip removed.
C26_Witness ==
    /\ f_pc = "called"
    /\ f_text = <<"a", " ", " ", "a">>
    /\ f_max_length = 2
    /\ f_filename = <<"a">>

\* sanitize_filename("aaa", -1) is "aa", longer than max_length, and
\* sanitizing it again gives "a".
NegativeMaxLengthCutsFromEnd ==
    /\ f_pc = "called"
    /\ f_text = <<"a", "a", "a">>
    /\ f_max_length = 0 - 1
    /\ f_filename = <<"a", "a">>
    /\ sanitize_filename(f_filename, f_max_length) = <<"a">>

----------------------------------------------------------------------------
(* The scraper's properties *)

\* The scraper's user is done with it: the with-block was left, or the
\* constructor raised.
ScraperDone == s_pc \in {"exited", "init_failed"}

\* A browser was started for this scraper.
DriverAcquired == s_session # "none"

\* C8: once a driver has been acquired, driver.quit() is called on every exit
\* path, an error of the initialization after the driver was created included;
\* on a normal exit of the with-block it is called exactly once.
C8_DriverReleasedOnEveryExitPath ==
    /\ (ScraperDone /\ DriverAcquired) => s_quit_calls >= 1
    /\ (s_pc = "exited" /\ s_raised = "none") => s_quit_calls = 1

\* What holds of C8: every way out of the with-block, by return or by
\* exception, calls driver.quit() exactly once.
WithBlockReleasesDriver == s_pc = "exited" => s_quit_calls = 1

\* ElPaisScraper(browser=...) was called and _initialize_driver has chosen
\* its branch.
BrowserChosen == "browser" \in DOMAIN s_args /\ s_pc # "initialize"

\* C16: a browser name that is not "chrome", "firefox" or "edge" in any
\* letter case makes the constructor raise ValueError, with self.driver None
\* and no browser started; one of the three names, in any letter case, does
\* not raise ValueError.
C16_UnsupportedBrowserRaisesValueError ==
    BrowserChosen =>
        IF RefLower(s_args.browser) \in {B_chrome, B_firefox, B_edge}
        THEN s_raised # "ValueError"
        ELSE /\ s_pc = "init_failed"
             /\ s_raised = "ValueError"
             /\ s_driver = "None"
             /\ s_session = "none"

\* The test's case: ElPaisScraper(browser="invalid") raised ValueError.
C16_Witness ==
    /\ s_pc = "init_failed"
    /\ s_args = [browser |-> B_invalid]
    /\ s_raised = "ValueError"
    /\ s_driver = "None"

\* The text '/opinion/2026' stands in url at some position.
HasOpinion2026(url) ==
    \E k \in 0..(Len(url) - Len(Opinion2026)) :
        \A m \in DOMAIN Opinion2026 : url[k + m] = Opinion2026[m]

\* C17: the list get_article_links(count) returns has at most count URLs, no
\* URL twice, and '/opinion/2026' in every URL, whatever elements the selectors
\* gave; scrape_all collects and returns at most NUM_ARTICLES articles.
C17_LinksBoundedDistinctOpinion2026 ==
    /\ Len(s_links) <= s_count
    /\ \A i, j \in DOMAIN s_links : i # j => s_links[i] # s_links[j]
    /\ \A i \in DOMAIN s_links : HasOpinion2026(s_links[i])
    /\ Len(s_articles) <= NUM_ARTICLES
    /\ s_pc = "body_done" => Len(s_returned) <= NUM_ARTICLES

\* get_article_links(2) on a page whose selectors gave 18 elements, the same
\* URLs several times among them, returned two URLs.
C17_Witness ==
    /\ s_pc = "links_done"
    /\ s_count = 2
    /\ s_elements = 18
    /\ s_links = <<Url("a"), Url("b")>>

\* scrape_all on a page with six articles returned NUM_ARTICLES of them.
ScrapeAllReturnedFull ==
    /\ s_pc = "body_done"
    /\ s_elements >= 6
    /\ Len(s_returned) = NUM_ARTICLES

\* C18: ElPaisScraper(driver=driver) constructs a scraper that holds the
\* supplied driver and has launched no browser of its own; nothing is raised.
C18_ConstructedWithSuppliedDriver ==
    "driver" \in DOMAIN s_args =>
        /\ s_raised = "none"
        /\ s_driver = s_args.driver
        /\ s_session = "none"

\* ElPaisScraper(browser="Chrome") was constructed.
CapitalizedNameConstructed ==
    /\ s_pc = "constructed"
    /\ s_args = [browser |-> Cap(B_chrome)]
    /\ s_driver = "driver"

\* download_image has returned.
DownloadReturned == s_download.returned # "none"

\* C22 as stated: a failed attempt is retried, so that False comes only
\* after more than one request.
C22_FailedDownloadIsRetried ==
    s_download.returned = "False" => s_download.requests >= 2

\* C22, amended: download_image makes one request; it returns True when the
\* image was saved and False as soon as the request or the saving raised an
\* Exception, without another attempt; no Exception leaves it.
C22_DownloadIsOneAttempt ==
    /\ DownloadReturned =>
           /\ s_download.requests = 1
           /\ s_download.returned = "False" <=> s_download.error # "none"
           /\ s_download.returned = "True" <=> s_download.error = "none"
    /\ s_raised \in {"none", "KeyboardInterrupt"}

\* The request of the first article's image failed and download_image
\* returned False after that one request.
C22_Witness ==
    /\ s_pc = "scrape"
    /\ Len(s_articles) = 1
    /\ s_download.error = "RequestException"
    /\ s_download.requests = 1
    /\ s_download.returned = "False"

\* The positions of a text that hold something other than white space.
InkAt(text) == {i \in DOMAIN text : text[i] \notin Whitespace}

\* A selector found an element whose text is more than white space.
HasText(found) == ~found.raises /\ InkAt(found.text) # {}

\* A text from its first to its last character that is not white space.
Core(text) ==
    LET lo == CHOOSE i \in InkAt(text) : \A j \in InkAt(text) : i <= j
        hi == CHOOSE i \in InkAt(text) : \A j \in InkAt(text) : i >= j
    IN SubSeq(text, lo, hi)

\* The title the chain of selectors gives on a page.
ChainTitle(page) ==
    IF \E k \in TitleSelectors : HasText(page[k])
    THEN LET first == CHOOSE k \in TitleSelectors :
                          /\ HasText(page[k])
                          /\ \A j \in 1..(k - 1) : ~HasText(page[j])
         IN Core(page[first].text)
    ELSE NoTitleFound

\* Every article of a list has its url, title and content, and a title that
\* is not empty.
WellFormedArticles(articles) ==
    \A i \in DOMAIN articles :
        /\ {"url", "title", "content"} \subseteq DOMAIN articles[i]
        /\ articles[i].title # <<>>

\* C23: _extract_title returns the stripped text of the first of its four
\* selectors, in order, whose element exists and has a text that is not empty
\* once stripped, and 'No title found' when there is none; so every article
\* scrape_article builds and scrape_all returns has a url, a title and a
\* content, and its title is not empty.
C23_TitleFromFirstSelectorWithText ==
    /\ [](/\ WellFormedArticles(s_articles)
          /\ s_pc = "body_done" => WellFormedArticles(s_returned))
    /\ [][(s_pc = "loaded" /\ Len(s_articles') = Len(s_articles) + 1) =>
              s_articles'[Len(s_articles')].title = ChainTitle(s_page)]_vars

\* scrape_all has appended one article without a title and loaded the page
\* of the next one: its first selector finds no element, its second an
\* element with a title between white space, its third one with another
\* title.
TitlePageLoaded ==
    /\ s_pc = "loaded"
    /\ Len(s_articles) = 1
    /\ s_articles[1].title = NoTitleFound
    /\ s_page[1].raises
    /\ HasText(s_page[2])
    /\ HasText(s_page[3])
    /\ ChainTitle(s_page) = T_primera

\* scrape_all returned two articles: no selector gave a text on the first
\* one's page, the second one's title is the second selector's.
C23_Witness ==
    /\ s_pc = "body_done"
    /\ Len(s_returned) = 2
    /\ s_returned[1].title = NoTitleFound
    /\ s_returned[2].title = T_primera

\* The place of a link in article_links.
LinkPlace(url) == CHOOSE k \in DOMAIN s_links : s_links[k] = url

\* The articles are articles of the links, in the links' order.
InLinkOrder(articles) ==
    /\ \A i \in DOMAIN articles : articles[i].url \in Range(s_links)
    /\ \A i, j \in DOMAIN articles :
           i < j => LinkPlace(articles[i].url) < LinkPlace(articles[j].url)

\* What C27 says of the list scrape_all returns.
ReturnsScrapedArticles ==
    s_pc = "body_done" =>
        IF s_links = <<>> THEN s_returned = <<>>
        ELSE /\ s_returned = s_articles
             /\ s_li = Len(s_links) + 1
             /\ InLinkOrder(s_returned)

\* What C27 says of the loop's steps: a scrape_article that succeeded adds
\* the link's article at the end, one that failed adds nothing and the loop
\* goes on, and so it does after download_image, whatever it returned.
LoopStep ==
    /\ (s_pc = "loaded" /\ s_pc' \in {"scrape", "download"}) =>
           /\ Len(s_articles') = Len(s_articles) + 1
           /\ SubSeq(s_articles', 1, Len(s_articles)) = s_articles
           /\ s_articles'[Len(s_articles')].url = s_links[s_li]
    /\ (s_pc = "scrape" /\ s_li' = s_li + 1) =>
           /\ s_articles' = s_articles
           /\ s_pc' = "scrape"
    /\ (s_pc = "download" /\ s_pc' # "body_raised") =>
           /\ s_articles' = s_articles
           /\ s_li' = s_li + 1
           /\ s_pc' = "scrape"

\* C27: scrape_all returns the articles of the links whose scrape_article
\* succeeded, and only those, in the links' order; a link whose scrape failed
\* is skipped and the loop goes on; a failed image download neither removes
\* the article nor stops the loop; scrape_all returns [] when the navigation
\* fails or no link is found.
C27_ScrapeAllKeepsSuccessesInLinkOrder ==
    []ReturnsScrapedArticles /\ [][LoopStep]_vars

\* scrape_all on two links: the first scrape failed, the second succeeded
\* and download_image was called for its image; the list returned holds the
\* second link's article.
C27_Witness ==
    /\ s_pc = "body_done"
    /\ Len(s_links) = 2
    /\ Len(s_returned) = 1
    /\ s_returned[1].url = s_links[2]
    /\ Truthy(s_returned[1].image_url)

\* The navigation failed and scrape_all returned [].
NavigationFailedReturnsEmpty ==
    /\ s_pc = "body_done"
    /\ s_count = 0
    /\ s_returned = <<>>

----------------------------------------------------------------------------
(* main's properties *)

\* The steps main() takes from a stage to the next.
StageSteps ==
    { <<"start", "scrape">>, <<"scrape", "translate">>,
      <<"translate", "analyze">>, <<"scrape", "returned">>,
      <<"translate", "returned">>, <<"analyze", "returned">> }

\* The translation has begun: the translator was given the articles.
TranslationBegun == t_op = "get_translated_headers"

\* The analysis has begun.
AnalysisBegun == a_last \in {"analyze_headers", "print_analysis"}

\* What C28 says of the states of main().
StagesInOrder ==
    /\ TranslationBegun =>
           /\ s_pc = "exited"
           /\ s_quit_calls = 1
           /\ s_raised = "none"
           /\ s_returned # <<>>
    /\ AnalysisBegun =>
           /\ TranslationBegun
           /\ t_pc = "done"
           /\ Len(t_results) = Len(s_returned)
           /\ headers = TranslatedHeaders(t_results)
    /\ (/\ m_pc = "returned"
        /\ s_pc = "exited"
        /\ s_raised = "none"
        /\ s_returned = <<>>) =>
               /\ m_exit = 1
               /\ ~TranslationBegun
               /\ t_log = <<>>
               /\ ~AnalysisBegun
    /\ m_exit = 0 =>
           /\ m_pc = "returned"
           /\ TranslationBegun
           /\ a_last = "print_analysis"
    /\ m_pc = "returned" <=> m_exit \in {0, 1}

\* C28: main() runs its stages in the order scrape, close of the browser,
\* translation, analysis: driver.quit() is called before the first request
\* to the translation service, the analysis starts only when every header
\* has its translation, without articles main returns 1 and neither
\* translates nor analyzes, and it returns 0 only after all three stages.
C28_StagesRunInOrder ==
    /\ []StagesInOrder
    /\ [][m_pc' # m_pc => <<m_pc, m_pc'>> \in StageSteps]_vars

\* main() returned 0: the browser was closed, two headers were translated
\* and the analysis was printed.
C28_Witness ==
    /\ m_pc = "returned"
    /\ m_exit = 0
    /\ s_quit_calls = 1
    /\ Len(s_returned) = 2
    /\ Len(t_results) = 2
    /\ a_last = "print_analysis"

\* main() returned 1 because scrape_all gave no article.
NoArticlesReturnsOne ==
    /\ m_pc = "returned"
    /\ m_exit = 1
    /\ s_pc = "exited"
    /\ s_raised = "none"
    /\ s_returned = <<>>

====
